---- MODULE Spec2Model ----
(***************************************************************************)
(* State-machine model of the stark-backend core: the execution tracker,   *)
(* the agent loop, the memory store with consolidation and hybrid search,  *)
(* the exec and read_file tools and the tool registry.  Each subsystem has *)
(* its own next-state relation and specification over the shared variables.*)
(***************************************************************************)
EXTENDS Integers, Sequences, FiniteSets, TLC

VARIABLES
    \* ---- execution tracker (execution/tracker.rs)
    tasks,                \* DashMap<String, ExecutionTask>: task id -> task
    channel_executions,   \* DashMap<i64, String>: channel id -> execution id
    next_task_id,         \* the next fresh task id (ids are never reused)
    completed_event,      \* the last execution.completed event broadcast
    \* ---- agent loop (bin/agent_test.rs, run_agent_loop)
    agent_pc,             \* "top" | "await" | "done" | "failed"
    iteration,            \* the loop's iteration counter
    messages,             \* Vec<Message> sent with every request
    agent_result,         \* what run_agent_loop returned
    \* ---- memory store (db/tables/memories.rs, memory/*.rs)
    memories,             \* table memories: id -> row
    memory_embeddings,    \* table memory_embeddings: memory_id -> vector
    next_memory_id,       \* the rowid the next INSERT INTO memories gets
    cons_report,          \* what the merge or deduplicate call that has just
                          \* returned reported (NoReport after another operation,
                          \* Unrecorded where the reports are not looked at)
    \* ---- hybrid search (memory/search.rs, HybridSearcher::search)
    search_pc,            \* "idle" | "embedding" | "fusing" | "done"
    search_bm25,          \* ids of the BM25 result
    search_vector,        \* ids of the vector scan's result
    search_results,       \* the memories the search returned
    \* ---- exec tool (tools/builtin/exec.rs, ExecTool::execute)
    exec_pc,              \* "called" | "returned"
    exec_tool,            \* the ExecTool called: its allow and deny lists
    exec_command,         \* params.command
    exec_args,            \* params.args
    exec_result,          \* the ToolResult: "spawned" or the error
    exec_spawned,         \* the path given to Command::new, <<>> if none
    \* ---- read_file tool (tools/builtin/read_file.rs, ReadFileTool::execute)
    fs_links,             \* the symbolic links of the host: path -> target
    rf_pc,                \* "called" | "returned"
    rf_call,              \* the call: workspace_dir, path, offset, max_lines
    rf_result,            \* the ToolResult: success, content, error
    \* ---- tool registry (tools/registry.rs, ToolRegistry)
    reg_tools,            \* HashMap<String, Arc<dyn Tool>>: name -> definition
    reg_default_config,   \* default_config: ToolConfig
    reg_calls,            \* calls of ToolRegistry::execute so far
    reg_call,             \* the last call: name, config
    reg_invoked,          \* the tool whose execute the last call ran
    reg_result,           \* the ToolResult of the last call
    \* ---- ranking of a hybrid search (memory/search.rs, HybridSearcher::search)
    rank_pc,              \* "called" | "returned"
    rank_call,            \* the call: what the store ranks, limit, provider
    rank_gone,            \* rows found missing by the fetches by id
    rank_result,          \* Result<Vec<SearchResult>, String>
    \* ---- a call of complete_execution running beside other callers
    ce_pc,                \* "idle" | "taken" | "scanned" | "emitted" | "returned"
    ce_call,              \* its locals: channel_id, execution_id, total_metrics,
                          \* task_ids_to_remove, and the events it broadcast
    \* ---- skill registry (skills/registry.rs, SkillRegistry)
    sk_skills,            \* RwLock<HashMap<String, Skill>>: name -> skill
    sk_disk,              \* the skill files of the three directories
    sk_latest,            \* registered since the last clear: name, source -> version
    sk_pc,                \* where reload or load_all stands: "idle" or a source
    sk_queue,             \* the loaded skills of that source not yet registered
    sk_before,            \* the map when the running reload began
    sk_seen,              \* what the last reader observed
    \* ---- Claude adapter (ai/claude.rs, generate_text and generate_with_tools)
    ai_pc,                \* "called" | "returned"
    ai_call,              \* the method called and what the provider answers
    ai_result,            \* the Result the method returned
    \* ---- web3_tx tool (tools/builtin/web3_tx.rs, send_transaction)
    tx_pc,                \* where the call stands
    tx_call,              \* the caller's parameters, the context and what the RPC answers
    tx_request,           \* the EIP-1559 transaction that was built
    tx_hash,              \* the hash send_raw_transaction returned
    tx_receipt,           \* the receipt wait_for_receipt returned
    tx_events,            \* the tx events broadcast, in order
    tx_result,            \* what send_transaction returned
    \* ---- channel utilities (channels/util.rs)
    sm_pc,                \* where the split_message call stands
    sm_call,              \* the text and the limit
    sm_result,            \* the chunks returned
    ev_pc,                \* where the event_matches_session call stands
    ev_call,              \* the event data, the channel id and the chat id
    ev_result,            \* what it returned
    \* ---- concurrent add_to_task_metrics (execution/tracker.rs 142-154)
    am_pc,                \* caller -> where its call stands
    am_call,              \* caller -> the task id and the increments
    am_local,             \* caller -> the task its += has loaded
    am_lock,              \* DashMap shard -> the caller holding its write lock
    am_shard,             \* task id -> the shard of the key
    am_applied,           \* the mutations in the order they were stored
    am_log,               \* the task.updated events in the order of broadcast
    \* ---- concurrent callers of the memory store (db/tables/memories.rs, memory/search.rs)
    st_pc,                \* caller -> the step of its operation it is at
    st_call,              \* caller -> the operation and its arguments
    st_local,             \* caller -> the rows and vectors it holds, whether its insert was rejected
    st_lock               \* the caller holding db.conn, NoHolder if none

trackerVars == <<tasks, channel_executions, next_task_id, completed_event>>
agentVars == <<agent_pc, iteration, messages, agent_result>>
memVars == <<memories, memory_embeddings, next_memory_id, cons_report>>
searchVars == <<search_pc, search_bm25, search_vector, search_results>>
execVars == <<exec_pc, exec_tool, exec_command, exec_args, exec_result, exec_spawned>>
fileVars == <<fs_links, rf_pc, rf_call, rf_result>>
regVars == <<reg_tools, reg_default_config, reg_calls, reg_call, reg_invoked, reg_result>>
rankVars == <<rank_pc, rank_call, rank_gone, rank_result>>
concVars == <<ce_pc, ce_call>>
skillVars == <<sk_skills, sk_disk, sk_latest, sk_pc, sk_queue, sk_before, sk_seen>>
llmVars == <<ai_pc, ai_call, ai_result>>
txVars == <<tx_pc, tx_call, tx_request, tx_hash, tx_receipt, tx_events, tx_result>>
utilVars == <<sm_pc, sm_call, sm_result, ev_pc, ev_call, ev_result>>
addVars == <<am_pc, am_call, am_local, am_lock, am_shard, am_applied, am_log>>
storeVars == <<st_pc, st_call, st_local, st_lock>>

vars == <<tasks, channel_executions, next_task_id, completed_event,
          agent_pc, iteration, messages, agent_result,
          memories, memory_embeddings, next_memory_id, cons_report,
          search_pc, search_bm25, search_vector, search_results,
          exec_pc, exec_tool, exec_command, exec_args, exec_result, exec_spawned,
          fs_links, rf_pc, rf_call, rf_result,
          reg_tools, reg_default_config, reg_calls, reg_call, reg_invoked, reg_result,
          rank_pc, rank_call, rank_gone, rank_result,
          ce_pc, ce_call,
          sk_skills, sk_disk, sk_latest, sk_pc, sk_queue, sk_before, sk_seen,
          ai_pc, ai_call, ai_result,
          tx_pc, tx_call, tx_request, tx_hash, tx_receipt, tx_events, tx_result,
          sm_pc, sm_call, sm_result, ev_pc, ev_call, ev_result,
          am_pc, am_call, am_local, am_lock, am_shard, am_applied, am_log,
          st_pc, st_call, st_local, st_lock>>

\* what the operations of one subsystem leave alone
notTracker ==
    <<agentVars, memVars, searchVars, execVars, fileVars, regVars, rankVars, concVars, skillVars, llmVars, txVars, utilVars, addVars, storeVars>>
notAgent ==
    <<trackerVars, memVars, searchVars, execVars, fileVars, regVars, rankVars, concVars, skillVars, llmVars, txVars, utilVars, addVars, storeVars>>
notMem ==
    <<trackerVars, agentVars, searchVars, execVars, fileVars, regVars, rankVars, concVars, skillVars, llmVars, txVars, utilVars, addVars, storeVars>>
notSearch ==
    <<trackerVars, agentVars, memVars, execVars, fileVars, regVars, rankVars, concVars, skillVars, llmVars, txVars, utilVars, addVars, storeVars>>
notExec ==
    <<trackerVars, agentVars, memVars, searchVars, fileVars, regVars, rankVars, concVars, skillVars, llmVars, txVars, utilVars, addVars, storeVars>>
notFile ==
    <<trackerVars, agentVars, memVars, searchVars, execVars, regVars, rankVars, concVars, skillVars, llmVars, txVars, utilVars, addVars, storeVars>>
notRank ==
    <<trackerVars, agentVars, memVars, searchVars, execVars, fileVars, regVars, concVars, skillVars, llmVars, txVars, utilVars, addVars, storeVars>>
\* what the steps of the concurrent complete_execution leave alone
notConc ==
    <<agentVars, memVars, searchVars, execVars, fileVars, regVars, rankVars, skillVars, llmVars, txVars, utilVars, addVars, storeVars>>
notReg ==
    <<trackerVars, agentVars, memVars, searchVars, execVars, fileVars, rankVars, concVars, skillVars, llmVars, txVars, utilVars, addVars, storeVars>>
notSkill ==
    <<trackerVars, agentVars, memVars, searchVars, execVars, fileVars, regVars, rankVars, concVars, llmVars, txVars, utilVars, addVars, storeVars>>
notLlm ==
    <<trackerVars, agentVars, memVars, searchVars, execVars, fileVars, regVars, rankVars, concVars, skillVars, txVars, utilVars, addVars, storeVars>>
notTx ==
    <<trackerVars, agentVars, memVars, searchVars, execVars, fileVars, regVars, rankVars, concVars, skillVars, llmVars, utilVars, addVars, storeVars>>
notUtil ==
    <<trackerVars, agentVars, memVars, searchVars, execVars, fileVars, regVars, rankVars, concVars, skillVars, llmVars, txVars, addVars, storeVars>>
\* what the steps of the concurrent add_to_task_metrics leave alone
notAdd ==
    <<agentVars, memVars, searchVars, execVars, fileVars, regVars, rankVars, concVars, skillVars, llmVars, txVars, utilVars, storeVars>>
\* what the steps of the concurrent store callers leave alone
notStore ==
    <<trackerVars, agentVars, searchVars, execVars, fileVars, regVars, rankVars, concVars, skillVars, llmVars, txVars, utilVars, addVars>>

\* ------------------------------------------------------------------------
\* Bounds of the model
\* ------------------------------------------------------------------------
MaxTasks == 3
MaxMetric == 1

\* ------------------------------------------------------------------------
\* Execution tracker
\* ------------------------------------------------------------------------
Channels == {1, 2}
TaskIds == 1 .. MaxTasks
NoParent == 0
NoEvent == [channel_id |-> 0, execution_id |-> 0,
            tool_uses |-> 0, tokens_used |-> 0, lines_read |-> 0]

\* TaskMetrics::default()
DefaultMetrics == [tool_uses |-> 0, tokens_used |-> 0, lines_read |-> 0, child_count |-> 0]

\* ExecutionTask::new(channel_id, task_type, description, parent_id)
NewTask(id, ch, ty, parent) ==
    [id |-> id, channel_id |-> ch, task_type |-> ty, parent_id |-> parent,
     status |-> "pending", metrics |-> DefaultMetrics]

\* ExecutionTask::start
TaskStart(t) == [t EXCEPT !.status = "running"]

\* ExecutionTask::complete
TaskComplete(t) == [t EXCEPT !.status = "completed"]

\* DashMap::insert
MapInsert(m, k, v) == [x \in (DOMAIN m) \cup {k} |-> IF x = k THEN v ELSE m[x]]

\* DashMap::remove for a set of keys
MapRemove(m, ks) == [x \in (DOMAIN m) \ ks |-> m[x]]

\* the values TaskMetrics given to update_task_metrics are drawn from
UpdateInputs ==
    { [tool_uses |-> a, tokens_used |-> a, lines_read |-> 0, child_count |-> 0] :
        a \in {0, MaxMetric} }

\* the (tool_uses, tokens, lines) increments given to add_to_task_metrics
AddInputs == { <<1, 0, 0>>, <<0, 1, 1>> }

\* start_execution(channel_id, mode)
start_execution(ch) ==
    /\ UNCHANGED notTracker
    /\ next_task_id <= MaxTasks
    /\ LET task == TaskStart(NewTask(next_task_id, ch, "execution", NoParent))
       IN  /\ channel_executions' = MapInsert(channel_executions, ch, task.id)
           /\ tasks' = MapInsert(tasks, task.id, task)
    /\ next_task_id' = next_task_id + 1
    /\ UNCHANGED completed_event

\* the parent's child count is incremented when the parent is in the map
BumpParent(m, parent) ==
    IF parent \in DOMAIN m
    THEN [m EXCEPT ![parent].metrics.child_count = @ + 1]
    ELSE m

\* start_task(channel_id, parent_id, task_type, description, active_form)
start_task(ch, parent, ty) ==
    /\ UNCHANGED notTracker
    /\ next_task_id <= MaxTasks
    /\ LET task == TaskStart(NewTask(next_task_id, ch, ty, parent))
       IN  tasks' = MapInsert(BumpParent(tasks, parent), task.id, task)
    /\ next_task_id' = next_task_id + 1
    /\ UNCHANGED <<channel_executions, completed_event>>

\* the assignment of update_task_metrics: the metrics are replaced wholesale
SetMetrics(t, metrics) == [t EXCEPT !.metrics = metrics]

\* update_task_metrics(task_id, metrics)
update_task_metrics(id, metrics) ==
    /\ UNCHANGED notTracker
    /\ id \in DOMAIN tasks
    /\ tasks' = [tasks EXCEPT ![id] = SetMetrics(@, metrics)]
    /\ UNCHANGED <<channel_executions, next_task_id, completed_event>>

\* the three += of add_to_task_metrics
AddMetrics(t, tool_uses, tokens, lines) ==
    [t EXCEPT !.metrics.tool_uses = @ + tool_uses,
              !.metrics.tokens_used = @ + tokens,
              !.metrics.lines_read = @ + lines]

\* add_to_task_metrics(task_id, tool_uses, tokens, lines)
add_to_task_metrics(id, inc) ==
    /\ UNCHANGED notTracker
    /\ id \in DOMAIN tasks
    /\ tasks[id].metrics.tool_uses + inc[1] <= MaxMetric
    /\ tasks[id].metrics.tokens_used + inc[2] <= MaxMetric
    /\ tasks[id].metrics.lines_read + inc[3] <= MaxMetric
    /\ tasks' = [tasks EXCEPT ![id] = AddMetrics(@, inc[1], inc[2], inc[3])]
    /\ UNCHANGED <<channel_executions, next_task_id, completed_event>>

\* complete_task(task_id)
complete_task(id) ==
    /\ UNCHANGED notTracker
    /\ id \in DOMAIN tasks
    /\ tasks' = [tasks EXCEPT ![id] = TaskComplete(@)]
    /\ UNCHANGED <<channel_executions, next_task_id, completed_event>>

RECURSIVE SumOver(_, _, _)
SumOver(m, ids, field) ==
    IF ids = {} THEN 0
    ELSE LET t == CHOOSE x \in ids : TRUE
         IN  m[t].metrics[field] + SumOver(m, ids \ {t}, field)

\* the tasks complete_execution aggregates and removes: the filter of its loop
TasksToAggregate(m, ch, execution_id) ==
    { t \in DOMAIN m : m[t].channel_id = ch }

\* complete_execution(channel_id)
complete_execution(ch) ==
    /\ UNCHANGED notTracker
    /\ ch \in DOMAIN channel_executions
    /\ LET execution_id == channel_executions[ch]
           ids == TasksToAggregate(tasks, ch, execution_id)
       IN  /\ completed_event' =
                 [channel_id |-> ch, execution_id |-> execution_id,
                  tool_uses |-> SumOver(tasks, ids, "tool_uses"),
                  tokens_used |-> SumOver(tasks, ids, "tokens_used"),
                  lines_read |-> SumOver(tasks, ids, "lines_read")]
           /\ tasks' = MapRemove(tasks, ids)
    /\ channel_executions' = MapRemove(channel_executions, {ch})
    /\ UNCHANGED next_task_id

InitTracker ==
    /\ tasks = <<>>
    /\ channel_executions = <<>>
    /\ next_task_id = 1
    /\ completed_event = NoEvent

ParentChoices == {NoParent} \cup DOMAIN tasks

NextTracker ==
    \/ \E ch \in Channels : start_execution(ch)
    \/ \E ch \in Channels, p \in ParentChoices : start_task(ch, p, "tool_execution")
    \/ \E id \in TaskIds, m \in UpdateInputs : update_task_metrics(id, m)
    \/ \E id \in TaskIds, inc \in AddInputs : add_to_task_metrics(id, inc)
    \/ \E id \in TaskIds : complete_task(id)
    \/ \E ch \in Channels : complete_execution(ch)

\* ------------------------------------------------------------------------
\* complete_execution step by step, beside other callers of the tracker
\* ------------------------------------------------------------------------

\* the locals of a call of complete_execution
CompleteCall(ch, execution_id, total_metrics, task_ids_to_remove, events) ==
    [channel_id |-> ch, execution_id |-> execution_id, total_metrics |-> total_metrics,
     task_ids_to_remove |-> task_ids_to_remove, events |-> events]

NoCall == CompleteCall(0, NoParent, DefaultMetrics, {}, 0)

\* channel_executions.remove(&channel_id): Some((_, execution_id)) or None
ce_take(ch) ==
    /\ UNCHANGED notConc
    /\ ce_pc \in {"idle", "returned"}
    /\ ce_pc' = "taken"
    /\ ce_call' = CompleteCall(ch,
                               IF ch \in DOMAIN channel_executions
                               THEN channel_executions[ch] ELSE NoParent,
                               DefaultMetrics, {}, 0)
    /\ channel_executions' = MapRemove(channel_executions, {ch})
    /\ UNCHANGED <<tasks, next_task_id, completed_event>>

\* None: the call returns; Some: the loop over self.tasks.iter()
ce_scan ==
    /\ UNCHANGED notConc
    /\ ce_pc = "taken"
    /\ IF ce_call.execution_id = NoParent
       THEN /\ ce_pc' = "returned"
            /\ UNCHANGED ce_call
       ELSE LET ids == TasksToAggregate(tasks, ce_call.channel_id, ce_call.execution_id)
            IN  /\ ce_pc' = "scanned"
                /\ ce_call' = [ce_call EXCEPT
                                 !.total_metrics =
                                     [tool_uses |-> SumOver(tasks, ids, "tool_uses"),
                                      tokens_used |-> SumOver(tasks, ids, "tokens_used"),
                                      lines_read |-> SumOver(tasks, ids, "lines_read"),
                                      child_count |-> 0],
                                 !.task_ids_to_remove = ids]
    /\ UNCHANGED trackerVars

\* the root task is completed when it is in the map, the event is broadcast
ce_emit ==
    /\ UNCHANGED notConc
    /\ ce_pc = "scanned"
    /\ ce_pc' = "emitted"
    /\ tasks' = IF ce_call.execution_id \in DOMAIN tasks
                THEN [tasks EXCEPT ![ce_call.execution_id] = TaskComplete(@)]
                ELSE tasks
    /\ completed_event' =
          [channel_id |-> ce_call.channel_id, execution_id |-> ce_call.execution_id,
           tool_uses |-> ce_call.total_metrics.tool_uses,
           tokens_used |-> ce_call.total_metrics.tokens_used,
           lines_read |-> ce_call.total_metrics.lines_read]
    /\ ce_call' = [ce_call EXCEPT !.events = @ + 1]
    /\ UNCHANGED <<channel_executions, next_task_id>>

\* the ids the clean-up loop removes: the ones the scan collected
ce_cleanup_ids(m, call) == call.task_ids_to_remove

\* for task_id in task_ids_to_remove { self.tasks.remove(&task_id) }
ce_cleanup ==
    /\ UNCHANGED notConc
    /\ ce_pc = "emitted"
    /\ ce_pc' = "returned"
    /\ tasks' = MapRemove(tasks, ce_cleanup_ids(tasks, ce_call))
    /\ UNCHANGED <<channel_executions, next_task_id, completed_event, ce_call>>

InitConc ==
    /\ ce_pc = "idle"
    /\ ce_call = NoCall

\* one call of complete_execution at a time, with start_task and
\* add_to_task_metrics of other callers between its steps
NextConc ==
    \/ \E ch \in Channels : ce_pc \in {"idle", "returned"} /\ start_execution(ch)
    \/ \E ch \in Channels, p \in ParentChoices : start_task(ch, p, "tool_execution")
    \/ \E id \in TaskIds, inc \in AddInputs : add_to_task_metrics(id, inc)
    \/ \E ch \in Channels : ce_take(ch)
    \/ ce_scan
    \/ ce_emit
    \/ ce_cleanup

\* ------------------------------------------------------------------------
\* Agent loop
\* ------------------------------------------------------------------------
max_iterations == 10

NoId == "none"

\* Message { role, content, tool_calls, tool_call_id, name }
Msg(role, calls, call_id) == [role |-> role, tool_calls |-> calls, tool_call_id |-> call_id]

\* ToolCall { id, function: { name, arguments } }
Call(id, name) == [id |-> id, name |-> name]

\* the tool_calls lists a provider reply is drawn from (none: a final answer)
ToolCallLists ==
    { <<Call("c1", "get_weather")>>,
      <<Call("c2", "list_skills"), Call("c1", "get_weather")>>,
      <<Call("c1", "get_weather"), Call("c1", "get_weather")>> }

\* the ways a request ends in Err before a reply is handled
ProviderFailures == {"Request failed", "API error", "Failed to parse response", "No choices in response"}

\* a faulty ToolMessage: the response is tagged with the tool's name
ToolMessage_ByName(tc) == Msg("tool", <<>>, tc.name)

\* the tool message the loop pushes for one executed tool call
ToolMessage(tc) == Msg("tool", <<>>, tc.id)

\* the messages pushed for a reply with tool calls: the assistant message, then
\* one tool message per call in the order of the calls
ToolRoundMessages(tool_calls) ==
    <<Msg("assistant", tool_calls, NoId)>>
        \o [i \in 1 .. Len(tool_calls) |-> ToolMessage(tool_calls[i])]

\* a faulty BudgetExceeded: the test is off by one
BudgetExceeded_Ge(it) == it >= max_iterations

\* the budget test at the top of the loop
BudgetExceeded(it) == it > max_iterations

\* top of the loop: count the iteration, fail over budget, else send the request
LoopTop ==
    /\ UNCHANGED notAgent
    /\ agent_pc = "top"
    /\ iteration' = iteration + 1
    /\ IF BudgetExceeded(iteration + 1)
       THEN /\ agent_pc' = "failed"
            /\ agent_result' = "Max iterations reached"
       ELSE /\ agent_pc' = "await"
            /\ UNCHANGED agent_result
    /\ UNCHANGED messages

\* the request or the decoding of its response fails
ResponseError(e) ==
    /\ UNCHANGED notAgent
    /\ agent_pc = "await"
    /\ agent_pc' = "failed"
    /\ agent_result' = e
    /\ UNCHANGED <<iteration, messages>>

\* the reply carries tool calls: record them, run each tool, continue
ResponseToolCalls(tool_calls) ==
    /\ UNCHANGED notAgent
    /\ agent_pc = "await"
    /\ Len(tool_calls) > 0
    /\ messages' = messages \o ToolRoundMessages(tool_calls)
    /\ agent_pc' = "top"
    /\ UNCHANGED <<iteration, agent_result>>

\* the reply carries no tool calls: its content is the final answer
ResponseFinal ==
    /\ UNCHANGED notAgent
    /\ agent_pc = "await"
    /\ agent_pc' = "done"
    /\ agent_result' = "final_content"
    /\ UNCHANGED <<iteration, messages>>

\* ClaudeClient::build_tool_result_messages(tool_calls, tool_responses)
build_tool_result_messages(tool_calls, tool_responses) ==
    << [role |-> "assistant",
        blocks |-> [i \in 1 .. Len(tool_calls) |->
                      [type |-> "tool_use", id |-> tool_calls[i].id]]],
       [role |-> "user",
        blocks |-> [i \in 1 .. Len(tool_responses) |->
                      [type |-> "tool_result", id |-> tool_responses[i].tool_call_id]]] >>

InitAgent ==
    /\ agent_pc = "top"
    /\ iteration = 0
    /\ messages = <<Msg("system", <<>>, NoId), Msg("user", <<>>, NoId)>>
    /\ agent_result = "none"

NextAgent ==
    \/ LoopTop
    \/ \E e \in ProviderFailures : ResponseError(e)
    \/ \E tcs \in ToolCallLists : ResponseToolCalls(tcs)
    \/ ResponseFinal


\* ------------------------------------------------------------------------
\* Memory store, consolidation, deduplication and merge
\* ------------------------------------------------------------------------

\* rows ever inserted into table memories
MaxMemories == 3

MemoryIds == 1 .. MaxMemories

\* SQL NULL in the columns superseded_by and expires_at
NoMemory == 0
NoExpiry == 0

\* thresholds of the consolidator, in hundredths
similarity_threshold == 85
dedup_threshold == 95
min_cluster_size == 2

\* the importance a merge over HTTP starts from
merge_base_importance == 5

\* what the embedding provider returns for a content
Embed(content) ==
    CASE content = "a" -> <<1, 0>>
      [] content = "b" -> <<3, 1>>
      [] OTHER -> <<0, 1>>

\* the memories callers create: type, content, importance, whether they expire
CreateInputs ==
    { [memory_type |-> "long_term", content |-> "a", importance |-> 7, expires |-> FALSE,
       entity |-> "alice"],
      [memory_type |-> "long_term", content |-> "a", importance |-> 3, expires |-> FALSE,
       entity |-> "bob"],
      [memory_type |-> "session_summary", content |-> "b", importance |-> 3, expires |-> FALSE,
       entity |-> "none"],
      [memory_type |-> "daily_log", content |-> "c", importance |-> 3, expires |-> TRUE,
       entity |-> "none"] }

\* merged_content of a merge request, and the text the LLM consolidates to
MergedContents == {"a"}

Max(S) == CHOOSE x \in S : \A y \in S : y <= x

Range(s) == { s[i] : i \in 1 .. Len(s) }

\* Utc::now(): later than the created_at of every row
Clock(mems) == Max({0} \cup { mems[id].created_at : id \in DOMAIN mems })

Nows(mems) == { Clock(mems) + 1 }

\* the row create_memory_extended inserts; superseded_by starts NULL
\* (entity: entity_type and entity_name)
NewMemory(memory_type, content, importance, now, expires_at, entity, source_type) ==
    [memory_type |-> memory_type, content |-> content, importance |-> importance,
     created_at |-> now, expires_at |-> expires_at, superseded_by |-> NoMemory,
     entity |-> entity, source_type |-> source_type]

\* the report of a merge or deduplicate call: the ids it was given or
\* loaded, the row it created, the (keep, remove) pairs it found
Report(op, ok, ids, new_id, use_max_importance, dry_run, pairs, removed, failed) ==
    [op |-> op, ok |-> ok, ids |-> ids, new_id |-> new_id,
     use_max_importance |-> use_max_importance, dry_run |-> dry_run,
     pairs |-> pairs, duplicates_removed |-> removed, failed |-> failed]

NoReport == Report("none", FALSE, <<>>, NoMemory, FALSE, FALSE, <<>>, 0, {})

Unrecorded == Report("unrecorded", FALSE, <<>>, NoMemory, FALSE, FALSE, <<>>, 0, {})

\* the call returns report r
Returns(r) == cons_report' = IF cons_report = Unrecorded THEN Unrecorded ELSE r

create_memory_extended(input, now) ==
    /\ UNCHANGED notMem
    /\ next_memory_id <= MaxMemories
    /\ memories' = MapInsert(memories, next_memory_id,
                             NewMemory(input.memory_type, input.content, input.importance, now,
                                       IF input.expires THEN now + 1 ELSE NoExpiry,
                                       input.entity, "inferred"))
    /\ next_memory_id' = next_memory_id + 1
    /\ Returns(NoReport)
    /\ UNCHANGED memory_embeddings

\* a faulty supersede_memory: the UPDATE has no WHERE clause
supersede_memory_NoWhere(mems, memory_id, superseded_by) ==
    [x \in DOMAIN mems |-> [mems[x] EXCEPT !.superseded_by = superseded_by]]

\* UPDATE memories SET superseded_by = ?1 WHERE id = ?3
supersede_memory(mems, memory_id, superseded_by) ==
    IF memory_id \in DOMAIN mems
    THEN [mems EXCEPT ![memory_id].superseded_by = superseded_by]
    ELSE mems

\* a supersede_memory call whose Err the caller only logs: the UPDATE of a
\* row in failed does not happen
try_supersede(mems, memory_id, superseded_by, failed) ==
    IF memory_id \in failed THEN mems ELSE supersede_memory(mems, memory_id, superseded_by)

\* supersede every memory of ids, in order, by target
RECURSIVE SupersedeAll(_, _, _, _)
SupersedeAll(mems, ids, target, failed) ==
    IF ids = <<>> THEN mems
    ELSE SupersedeAll(try_supersede(mems, Head(ids), target, failed), Tail(ids), target, failed)

\* SELECT ... WHERE id = ?1, with no other condition
get_memory(id) == IF id \in DOMAIN memories THEN <<memories[id]>> ELSE <<>>

\* memory_embeddings.memory_id references memories(id): the rows of deleted
\* memories go with them
on_delete_cascade(embeddings, mems) ==
    [x \in (DOMAIN embeddings) \cap (DOMAIN mems) |-> embeddings[x]]

\* the same reference, tested when a row is written
references_memory(mems, memory_id) == memory_id \in DOMAIN mems

\* DELETE FROM memories WHERE id = ?1
delete_memory(id) ==
    /\ UNCHANGED notMem
    /\ id \in DOMAIN memories
    /\ memories' = MapRemove(memories, {id})
    /\ memory_embeddings' = on_delete_cascade(memory_embeddings, memories')
    /\ Returns(NoReport)
    /\ UNCHANGED next_memory_id

Expired(mems, now) ==
    { id \in DOMAIN mems : mems[id].expires_at # NoExpiry /\ mems[id].expires_at < now }

cleanup_expired_memories(now) ==
    /\ UNCHANGED notMem
    /\ Expired(memories, now) # {}
    /\ memories' = MapRemove(memories, Expired(memories, now))
    /\ memory_embeddings' = on_delete_cascade(memory_embeddings, memories')
    /\ Returns(NoReport)
    /\ UNCHANGED next_memory_id

embed_memory(id) ==
    /\ UNCHANGED notMem
    /\ id \in DOMAIN memories
    /\ id \notin DOMAIN memory_embeddings
    /\ memory_embeddings' = MapInsert(memory_embeddings, id, Embed(memories[id].content))
    /\ Returns(NoReport)
    /\ UNCHANGED <<memories, next_memory_id>>

Dot(a, b) == IF Len(a) = 2 THEN a[1] * b[1] + a[2] * b[2] ELSE 0

\* cosine_similarity(a, b) >= pct / 100, in integers
cosine_similarity_at_least(a, b, pct) ==
    IF Len(a) # Len(b) \/ Len(a) = 0 \/ Dot(a, a) = 0 \/ Dot(b, b) = 0
    THEN 0 >= pct
    ELSE /\ Dot(a, b) >= 0
         /\ Dot(a, b) * Dot(a, b) * 10000 >= pct * pct * Dot(a, a) * Dot(b, b)

\* the rows get_memories_with_embeddings selects: active, with an embedding
ActiveWithEmbedding ==
    { id \in DOMAIN memories \cap DOMAIN memory_embeddings :
        memories[id].superseded_by = NoMemory }

\* ... ORDER BY created_at DESC (rows of one instant come in any order)
get_memories_with_embeddings ==
    { s \in [1 .. Cardinality(ActiveWithEmbedding) -> ActiveWithEmbedding] :
        /\ \A i, j \in DOMAIN s : i # j => s[i] # s[j]
        /\ \A i, j \in DOMAIN s :
              i < j => memories[s[i]].created_at >= memories[s[j]].created_at }

\* the later rows a cluster opened at position i absorbs
ClusterAt(ms, i, assigned) ==
    <<ms[i]>> \o
    SelectSeq([j \in 1 .. (Len(ms) - i) |-> ms[i + j]],
              LAMBDA b : /\ b \notin assigned
                         /\ cosine_similarity_at_least(memory_embeddings[ms[i]],
                                                       memory_embeddings[b],
                                                       similarity_threshold))

\* the single pass of find_similar_clusters from position i on
RECURSIVE ClusterPass(_, _, _, _)
ClusterPass(ms, i, clusters, assigned) ==
    IF i > Len(ms) THEN clusters
    ELSE IF ms[i] \in assigned THEN ClusterPass(ms, i + 1, clusters, assigned)
    ELSE LET cluster == ClusterAt(ms, i, assigned)
         IN  ClusterPass(ms, i + 1,
                         IF Len(cluster) >= min_cluster_size
                         THEN Append(clusters, cluster) ELSE clusters,
                         assigned \cup Range(cluster))

find_similar_clusters(ms) ==
    IF Len(ms) < min_cluster_size THEN <<>> ELSE ClusterPass(ms, 1, <<>>, {})

MaxImportance(ids, base) == Max({base} \cup { memories[ids[i]].importance : i \in DOMAIN ids })

\* what fails during a merge: nothing, the LLM call, the INSERT
MergeFaults == {"none", "llm", "create"}

\* MemoryConsolidator::merge_memories on one cluster found in the store;
\* failed: the members whose supersede_memory returns Err
merge_memories(ms, content, now, fault, failed) ==
    /\ UNCHANGED notMem
    /\ next_memory_id <= MaxMemories
    /\ \E k \in DOMAIN find_similar_clusters(ms) :
          LET cluster == find_similar_clusters(ms)[k]
              consolidated == NewMemory(memories[cluster[1]].memory_type, content,
                                        MaxImportance(cluster, 0), now, NoExpiry,
                                        memories[cluster[1]].entity, "consolidated")
          IN  IF fault # "none"
              THEN /\ Returns(Report("merge_memories", FALSE, cluster, NoMemory,
                                    TRUE, FALSE, <<>>, 0, {}))
                   /\ UNCHANGED <<memories, next_memory_id>>
              ELSE /\ failed \subseteq Range(cluster)
                   /\ memories' = SupersedeAll(MapInsert(memories, next_memory_id, consolidated),
                                               cluster, next_memory_id, failed)
                   /\ next_memory_id' = next_memory_id + 1
                   /\ Returns(Report("merge_memories", TRUE, cluster, next_memory_id,
                                    TRUE, FALSE, <<>>, 0, failed))
    /\ UNCHANGED memory_embeddings

\* (keep, remove) of a pair above the threshold
DedupPair(a, b) ==
    IF memories[a].importance > memories[b].importance THEN <<a, b>>
    ELSE IF memories[b].importance > memories[a].importance THEN <<b, a>>
    ELSE IF memories[a].created_at <= memories[b].created_at THEN <<a, b>>
    ELSE <<b, a>>

\* the nested loops of deduplicate: the outer loop skips a removed mem_a only
\* when it starts on it, the inner loop skips every removed mem_b
RECURSIVE DedupOuter(_, _, _, _), DedupInner(_, _, _, _, _)
DedupOuter(ms, i, duplicates, to_remove) ==
    IF i > Len(ms) THEN duplicates
    ELSE IF ms[i] \in to_remove THEN DedupOuter(ms, i + 1, duplicates, to_remove)
    ELSE DedupInner(ms, i, i + 1, duplicates, to_remove)

DedupInner(ms, i, j, duplicates, to_remove) ==
    IF j > Len(ms) THEN DedupOuter(ms, i + 1, duplicates, to_remove)
    ELSE IF ms[j] \in to_remove THEN DedupInner(ms, i, j + 1, duplicates, to_remove)
    ELSE IF cosine_similarity_at_least(memory_embeddings[ms[i]], memory_embeddings[ms[j]],
                                       dedup_threshold)
    THEN LET pair == DedupPair(ms[i], ms[j])
         IN  DedupInner(ms, i, j + 1, Append(duplicates, pair), to_remove \cup {pair[2]})
    ELSE DedupInner(ms, i, j + 1, duplicates, to_remove)

\* supersede_memory(remove_id, keep_id) for every pair, in order
RECURSIVE SupersedePairs(_, _, _)
SupersedePairs(mems, pairs, failed) ==
    IF pairs = <<>> THEN mems
    ELSE SupersedePairs(try_supersede(mems, Head(pairs)[2], Head(pairs)[1], failed),
                        Tail(pairs), failed)

\* a faulty duplicates_removed: the count does not look at dry_run
duplicates_removed_Always(dry_run, duplicates) == Len(duplicates)

\* DeduplicationResult.duplicates_removed
duplicates_removed(dry_run, duplicates) == IF dry_run THEN 0 ELSE Len(duplicates)

\* MemoryConsolidator::deduplicate; failed: the memories whose
\* supersede_memory returns Err
deduplicate(ms, dry_run, failed) ==
    /\ UNCHANGED notMem
    /\ LET duplicates == DedupOuter(ms, 1, <<>>, {})
       IN  /\ failed \subseteq (IF dry_run THEN {} ELSE { duplicates[i][2] : i \in DOMAIN duplicates })
           /\ memories' = IF dry_run THEN memories
                          ELSE SupersedePairs(memories, duplicates, failed)
           /\ Returns(Report("deduplicate", TRUE, ms, NoMemory, FALSE, dry_run,
                          duplicates, duplicates_removed(dry_run, duplicates), failed))
    /\ UNCHANGED <<memory_embeddings, next_memory_id>>

\* the id lists of a merge request: two ids, possibly the same id twice
MergeRequests == { <<a, b>> : a \in MemoryIds, b \in MemoryIds }

\* POST merge (controllers/memories.rs): needs two ids, 404 on a missing
\* one, 500 when the INSERT fails; failed: the memories whose supersede_memory
\* returns Err
http_merge_memories(memory_ids, merged_content, use_max_importance, now, fault, failed) ==
    /\ UNCHANGED notMem
    /\ Len(memory_ids) >= 2
    /\ \A i \in DOMAIN memory_ids : get_memory(memory_ids[i]) # <<>>
    /\ next_memory_id <= MaxMemories
    /\ LET merged == NewMemory(memories[memory_ids[Len(memory_ids)]].memory_type,
                               merged_content,
                               IF use_max_importance
                               THEN MaxImportance(memory_ids, merge_base_importance)
                               ELSE merge_base_importance,
                               now, NoExpiry, memories[memory_ids[1]].entity, "merged")
       IN  IF fault = "create"
           THEN /\ Returns(Report("http_merge", FALSE, memory_ids, NoMemory,
                                 use_max_importance, FALSE, <<>>, 0, {}))
                /\ UNCHANGED <<memories, next_memory_id>>
           ELSE /\ fault = "none"
                /\ failed \subseteq Range(memory_ids)
                /\ memories' = SupersedeAll(MapInsert(memories, next_memory_id, merged),
                                            memory_ids, next_memory_id, failed)
                /\ next_memory_id' = next_memory_id + 1
                /\ Returns(Report("http_merge", TRUE, memory_ids, next_memory_id,
                                 use_max_importance, FALSE, <<>>, 0, failed))
    /\ UNCHANGED memory_embeddings

InitMem ==
    /\ memories = <<>>
    /\ memory_embeddings = <<>>
    /\ next_memory_id = 1
    /\ cons_report = Unrecorded

\* the operations on single rows
StoreOps ==
    \/ \E input \in CreateInputs, now \in Nows(memories) : create_memory_extended(input, now)
    \/ \E id \in MemoryIds : embed_memory(id)
    \/ \E id \in MemoryIds : delete_memory(id)
    \/ \E now \in { Clock(memories), Clock(memories) + 2 } : cleanup_expired_memories(now)

\* the store with a database and an LLM that never fail
NextMem ==
    \/ StoreOps
    \/ \E ms \in get_memories_with_embeddings, c \in MergedContents, now \in Nows(memories) :
          merge_memories(ms, c, now, "none", {})
    \/ \E ms \in get_memories_with_embeddings, dry_run \in BOOLEAN : deduplicate(ms, dry_run, {})
    \/ \E ids \in MergeRequests, c \in MergedContents, u \in BOOLEAN, now \in Nows(memories) :
          http_merge_memories(ids, c, u, now, "none", {})

\* the store with the failures the three callers of supersede_memory handle
NextCons ==
    \/ StoreOps
    \/ \E ms \in get_memories_with_embeddings, c \in MergedContents, now \in Nows(memories),
          fault \in MergeFaults :
          \E failed \in SUBSET Range(ms) : merge_memories(ms, c, now, fault, failed)
    \/ \E ms \in get_memories_with_embeddings, dry_run \in BOOLEAN :
          \E failed \in SUBSET Range(ms) : deduplicate(ms, dry_run, failed)
    \/ \E ids \in MergeRequests, c \in MergedContents, u \in BOOLEAN, now \in Nows(memories),
          fault \in {"none", "create"} :
          \E failed \in SUBSET Range(ids) : http_merge_memories(ids, c, u, now, fault, failed)

\* ------------------------------------------------------------------------
\* Active reads and hybrid search
\* ------------------------------------------------------------------------

LongTermTypes == {"long_term", "preference", "fact", "entity", "task"}

\* the query of the search, and the rows the FTS index matches it to
SearchQuery == "a"
FtsMatch(query, content) == content = query

\* WHERE memories_fts MATCH ?1 AND m.superseded_by IS NULL
search_memories(query) ==
    { id \in DOMAIN memories :
        FtsMatch(query, memories[id].content) /\ memories[id].superseded_by = NoMemory }

\* WHERE memory_type = 'daily_log' AND log_date = ?1 AND superseded_by IS NULL
get_todays_daily_logs ==
    { id \in DOMAIN memories :
        memories[id].memory_type = "daily_log" /\ memories[id].superseded_by = NoMemory }

\* WHERE memory_type IN (...) AND importance >= ?1 AND superseded_by IS NULL
get_long_term_memories(min_importance) ==
    { id \in DOMAIN memories :
        /\ memories[id].memory_type \in LongTermTypes
        /\ memories[id].importance >= min_importance
        /\ memories[id].superseded_by = NoMemory }

\* WHERE memory_type = 'session_summary' ORDER BY created_at DESC
get_session_summaries ==
    { id \in DOMAIN memories : memories[id].memory_type = "session_summary" }

\* WHERE entity_type = ?1 AND superseded_by IS NULL (one entity in the model)
get_memories_by_entity ==
    { id \in DOMAIN memories : memories[id].superseded_by = NoMemory }

\* WHERE superseded_by IS NULL AND memory_type IN (types)
get_valid_memories(types) ==
    { id \in DOMAIN memories :
        memories[id].superseded_by = NoMemory /\ memories[id].memory_type \in types }

\* WHERE identity_id = ?1 AND superseded_by IS NULL AND memory_type IN (...)
get_cross_channel_memories ==
    { id \in DOMAIN memories :
        memories[id].superseded_by = NoMemory /\ memories[id].memory_type \in LongTermTypes }

\* memory_embeddings JOIN memories WHERE m.superseded_by IS NULL
vector_search == ActiveWithEmbedding

\* a memory as HybridSearcher.search returns it
Found(id, superseded_by) == [id |-> id, superseded_by |-> superseded_by]

\* the rows of the BM25 result, as response_to_memory copies them
FromBm25(bm25_results) == { Found(id, NoMemory) : id \in bm25_results }

\* reciprocal_rank_fusion: a row BM25 did not return is fetched by id
reciprocal_rank_fusion(bm25_results, vector_results) ==
    FromBm25(bm25_results) \cup
    { Found(id, memories[id].superseded_by) :
        id \in { v \in vector_results \ bm25_results : get_memory(v) # <<>> } }

\* search, first step: the BM25 query
SearchBm25 ==
    /\ UNCHANGED notSearch
    /\ search_pc = "idle"
    /\ search_bm25' = search_memories(SearchQuery)
    /\ search_pc' = "embedding"
    /\ UNCHANGED <<search_vector, search_results>>

\* the embedding provider fails: BM25 results only
SearchEmbedFailed ==
    /\ UNCHANGED notSearch
    /\ search_pc = "embedding"
    /\ search_results' = FromBm25(search_bm25)
    /\ search_pc' = "done"
    /\ UNCHANGED <<search_bm25, search_vector>>

\* the query embedding arrived: the vector scan
SearchVector ==
    /\ UNCHANGED notSearch
    /\ search_pc = "embedding"
    /\ search_vector' = vector_search
    /\ search_pc' = "fusing"
    /\ UNCHANGED <<search_bm25, search_results>>

\* the fusion, with its fetches by id
SearchFuse ==
    /\ UNCHANGED notSearch
    /\ search_pc = "fusing"
    /\ search_results' = reciprocal_rank_fusion(search_bm25, search_vector)
    /\ search_pc' = "done"
    /\ UNCHANGED <<search_bm25, search_vector>>

InitSearch ==
    /\ search_pc = "idle"
    /\ search_bm25 = {}
    /\ search_vector = {}
    /\ search_results = {}

\* a search running while other requests write to the store
NextSearch ==
    \/ SearchBm25
    \/ SearchEmbedFailed
    \/ SearchVector
    \/ SearchFuse
    \/ NextMem

\* ------------------------------------------------------------------------
\* Exec tool: command screening and spawning
\* ------------------------------------------------------------------------

\* strings are sequences of characters; commands of up to MaxCommandLen
\* characters over Alphabet
MaxCommandLen == 4
Alphabet == {"r", "m", "l", "s", "/", " ", "{", ";"}
Commands == UNION { [1 .. n -> Alphabet] : n \in 0 .. MaxCommandLen }

\* the args lists of the calls
ArgLists ==
    { <<>>,
      << <<"l">> >>,
      << <<"{", "l", "}">> >>,
      << <<"l">>, <<"l", ";", "s">> >> }

default_deny_list ==
    { <<"r", "m">>,
      <<"r", "m", "d", "i", "r">>,
      <<"d", "d">>,
      <<"m", "k", "f", "s">>,
      <<"f", "d", "i", "s", "k">>,
      <<"p", "a", "r", "t", "e", "d">>,
      <<"n", "c">>,
      <<"n", "e", "t", "c", "a", "t">>,
      <<"n", "m", "a", "p">>,
      <<"s", "u", "d", "o">>,
      <<"s", "u">>,
      <<"d", "o", "a", "s">>,
      <<"p", "k", "e", "x", "e", "c">>,
      <<"s", "y", "s", "t", "e", "m", "c", "t", "l">>,
      <<"s", "e", "r", "v", "i", "c", "e">>,
      <<"i", "n", "i", "t">>,
      <<"a", "p", "t">>,
      <<"a", "p", "t", "-", "g", "e", "t">>,
      <<"y", "u", "m">>,
      <<"d", "n", "f">>,
      <<"p", "a", "c", "m", "a", "n">>,
      <<"b", "r", "e", "w">>,
      <<"s", "h">>,
      <<"b", "a", "s", "h">>,
      <<"z", "s", "h">>,
      <<"f", "i", "s", "h">>,
      <<"c", "s", "h">>,
      <<"t", "c", "s", "h">>,
      <<"c", "h", "m", "o", "d">>,
      <<"c", "h", "o", "w", "n">>,
      <<"c", "h", "g", "r", "p">>,
      <<"k", "i", "l", "l">>,
      <<"k", "i", "l", "l", "a", "l", "l">>,
      <<"p", "k", "i", "l", "l">>,
      <<"c", "r", "o", "n", "t", "a", "b">>,
      <<"a", "t">>,
      <<"e", "v", "a", "l">>,
      <<"e", "x", "e", "c">>,
      <<"s", "o", "u", "r", "c", "e">>,
      <<"e", "x", "p", "o", "r", "t">>,
      <<"u", "n", "s", "e", "t">>,
      <<"e", "n", "v">> }

\* ExecTool::with_restrictions
with_restrictions(allow_list, deny_list) == [allow_list |-> allow_list, deny_list |-> deny_list]

\* ExecTool::new(), the tool of the unit test, and an allow list over the
\* default deny list.  No tool here names a deny-listed program in its allow
\* list: is_command_allowed tests the allow list first and then skips the
\* deny list, so such a tool would run the program.
ExecTools ==
    { with_restrictions({}, default_deny_list),
      with_restrictions({ <<"g", "i", "t">>, <<"n", "p", "m">> }, {}),
      with_restrictions({ <<"l", "s">> }, default_deny_list) }

\* the characters is_command_allowed refuses in a command ("backtick"
\* stands for the grave accent, which a string of this language cannot hold)
command_dangerous_chars ==
    {"|", ";", "&", "$", "backtick", "(", ")", "{", "}", "<", ">", "!", "\\"}

\* the characters execute refuses in an argument
arg_dangerous_chars == {"|", ";", "&", "$", "backtick", "(", ")", "<", ">"}

Whitespace == {" ", "\t", "\n", "\r"}

ContainsAny(s, chars) == \E i \in DOMAIN s : s[i] \in chars

\* s.split('/').last(): what follows the last '/', all of s when there is none
RECURSIVE SplitLast(_)
SplitLast(s) ==
    IF ~ContainsAny(s, {"/"}) THEN s
    ELSE SplitLast(Tail(s))

RECURSIVE TrimStart(_)
TrimStart(s) == IF s # <<>> /\ Head(s) \in Whitespace THEN TrimStart(Tail(s)) ELSE s

RECURSIVE UntilWhitespace(_)
UntilWhitespace(s) ==
    IF s = <<>> \/ Head(s) \in Whitespace THEN <<>>
    ELSE <<Head(s)>> \o UntilWhitespace(Tail(s))

\* s.split_whitespace().next(): the first token, <<>> when there is none
FirstToken(s) == UntilWhitespace(TrimStart(s))

\* a faulty base_command: the path is not split off
base_command_NoSplit(command) ==
    IF FirstToken(command) = <<>> THEN command ELSE FirstToken(command)

\* command.split('/').last().unwrap_or(command).split_whitespace().next().unwrap_or(command)
base_command(command) ==
    IF FirstToken(SplitLast(command)) = <<>> THEN command
    ELSE FirstToken(SplitLast(command))

is_command_allowed(tool, command) ==
    IF tool.allow_list # {}
    THEN IF base_command(command) \notin tool.allow_list
         THEN "not in the allowed commands list" ELSE "ok"
    ELSE IF base_command(command) \in tool.deny_list
    THEN "not allowed for security reasons"
    ELSE IF ContainsAny(command, command_dangerous_chars)
    THEN "command contains shell metacharacters"
    ELSE "ok"

\* the executables of the host, the directories of PATH, and the current directory
Executables == { <<"/", "r", "m">>, <<"/", "l", "s">>,
                 <<"/", "s", "/", "r", "m">>, <<"/", "s", "/", "l", "s">> }
PathDirs == { <<"/", "s">> }
CurrentDir == <<"/">>

\* a path as the OS resolves it: repeated '/' count once
RECURSIVE CollapseSlashes(_)
CollapseSlashes(p) ==
    IF Len(p) < 2 THEN p
    ELSE IF p[1] = "/" /\ p[2] = "/" THEN CollapseSlashes(Tail(p))
    ELSE <<Head(p)>> \o CollapseSlashes(Tail(p))

IsExecutable(p) == CollapseSlashes(p) \in Executables

\* which::which: a name with a '/' is a path (relative to the current
\* directory), a bare name is looked up in PATH; <<>> when nothing is found
which(command) ==
    IF command = <<>> THEN <<>>
    ELSE IF ContainsAny(command, {"/"})
    THEN LET p == IF Head(command) = "/" THEN command ELSE CurrentDir \o command
         IN  IF IsExecutable(p) THEN p ELSE <<>>
    ELSE IF \E d \in PathDirs : IsExecutable(d \o <<"/">> \o command)
    THEN (CHOOSE d \in PathDirs : IsExecutable(d \o <<"/">> \o command)) \o <<"/">> \o command
    ELSE <<>>

\* what execute returns, and the program it spawned (<<>>: none)
ExecOutcome(tool, command, args) ==
    IF is_command_allowed(tool, command) # "ok"
    THEN [result |-> is_command_allowed(tool, command), spawned |-> <<>>]
    ELSE IF \E i \in DOMAIN args : ContainsAny(args[i], arg_dangerous_chars)
    THEN [result |-> "argument contains dangerous characters", spawned |-> <<>>]
    ELSE IF which(command) = <<>>
    THEN [result |-> "command not found", spawned |-> <<>>]
    ELSE [result |-> "spawned", spawned |-> which(command)]

\* a call of ExecTool::execute that has not run yet
ExecCall(tool, command, args) ==
    /\ exec_pc = "called"
    /\ exec_tool = tool
    /\ exec_command = command
    /\ exec_args = args
    /\ exec_result = "none"
    /\ exec_spawned = <<>>

\* ExecTool::execute on the call's parameters
execute ==
    /\ UNCHANGED notExec
    /\ exec_pc = "called"
    /\ exec_pc' = "returned"
    /\ exec_result' = ExecOutcome(exec_tool, exec_command, exec_args).result
    /\ exec_spawned' = ExecOutcome(exec_tool, exec_command, exec_args).spawned
    /\ UNCHANGED <<exec_tool, exec_command, exec_args>>

InitExec == ExecCall(with_restrictions({}, default_deny_list), <<>>, <<>>)

\* every call over the tools, commands and args lists of the model
ExecCalls ==
    \E tool \in ExecTools, command \in Commands, args \in ArgLists :
        ExecCall(tool, command, args)

NextExec == execute

\* ------------------------------------------------------------------------
\* read_file tool: path resolution and the workspace check
\* ------------------------------------------------------------------------

\* a path is its sequence of components; an absolute path starts with "/"
\* (the root component)
NoPath == <<>>

\* the directories and the regular files of the host (a file is its lines;
\* NotText: bytes that are not UTF-8)
NotText == <<"not utf-8">>
Dirs == { <<"/">>, <<"/", "ws">>, <<"/", "ws", "d">>, <<"/", "etc">> }
Files ==
    [p \in { <<"/", "ws", "f">>, <<"/", "ws", "d", "g">>, <<"/", "ws", "b">>,
             <<"/", "etc", "passwd">> } |->
        CASE p = <<"/", "ws", "f">> -> <<"in f 1", "in f 2">>
          [] p = <<"/", "ws", "d", "g">> -> <<"in g 1">>
          [] p = <<"/", "ws", "b">> -> NotText
          [] OTHER -> <<"root:x:0">>]

\* the placements of symbolic links: where a link may sit, what it may
\* point to
LinkSets ==
    UNION { [S -> { <<"/", "etc", "passwd">>, <<"/", "etc">>, <<"..", "etc", "passwd">>,
                    <<"f">>, <<"l">>, <<"/", "ws">> }] :
            S \in SUBSET { <<"/", "ws", "l">>, <<"/", "ws", "d", "l">>, <<"/", "w">> } }

\* links followed before the OS gives up with ELOOP
MaxLinkHops == 3

\* Path::parent of a directory; the root is its own parent for ".."
Parent(dir) == IF Len(dir) <= 1 THEN dir ELSE SubSeq(dir, 1, Len(dir) - 1)

\* the OS resolving the components rest from the directory cur: "." and ".."
\* are applied, every symbolic link is followed, a missing entry or a file
\* used as a directory is an error (NoPath)
RECURSIVE Resolve(_, _, _, _)
Resolve(links, cur, rest, fuel) ==
    IF rest = <<>> THEN cur
    ELSE LET c == Head(rest)
             r == Tail(rest)
             p == Append(cur, c)
         IN  IF c = "/" THEN Resolve(links, <<"/">>, r, fuel)
             ELSE IF c = "." THEN Resolve(links, cur, r, fuel)
             ELSE IF c = ".." THEN Resolve(links, Parent(cur), r, fuel)
             ELSE IF p \in Dirs THEN Resolve(links, p, r, fuel)
             ELSE IF p \in DOMAIN Files THEN (IF r = <<>> THEN p ELSE NoPath)
             ELSE IF p \in DOMAIN links
             THEN (IF fuel = 0 THEN NoPath
                   ELSE Resolve(links, cur, links[p] \o r, fuel - 1))
             ELSE NoPath

\* std::env::current_dir()
current_dir == <<"/">>

\* Path::canonicalize: the absolute path with every link resolved, NoPath
\* for Err
canonicalize(links, path) ==
    IF path = <<>> THEN NoPath ELSE Resolve(links, current_dir, path, MaxLinkHops)

is_absolute(path) == path # <<>> /\ Head(path) = "/"

\* Path::join: an absolute right-hand side replaces the left-hand side
join(base, path) == IF is_absolute(path) THEN path ELSE base \o path

\* a faulty starts_with: only the root component is compared
starts_with_RootOnly(path, base) == Head(path) = Head(base)

\* Path::starts_with: base is a prefix of path, component by component
starts_with(path, base) ==
    /\ Len(base) <= Len(path)
    /\ SubSeq(path, 1, Len(base)) = base

\* Path::exists, following links
exists(links, path) == canonicalize(links, path) # NoPath

\* Path::is_file, following links
is_file(links, path) == canonicalize(links, path) \in DOMAIN Files

\* tokio::fs::read_to_string: the lines of the file the path leads to
read_to_string(links, path) == Files[canonicalize(links, path)]

\* ToolResult::error and ToolResult::success
ToolError(e) == [success |-> FALSE, content |-> <<>>, error |-> e]
ToolSuccess(content) == [success |-> TRUE, content |-> content, error |-> "none"]

\* lines[offset..end], each with its 1-based line number
selected_lines(lines, offset, max_lines) ==
    LET end == IF offset + max_lines < Len(lines) THEN offset + max_lines ELSE Len(lines)
    IN  [i \in 1 .. (end - offset) |-> [n |-> offset + i, line |-> lines[offset + i]]]

\* ReadFileTool::execute
ReadFileOutcome(links, workspace, path, offset, max_lines) ==
    LET requested_path == path
        full_path == IF is_absolute(requested_path) THEN requested_path
                     ELSE join(workspace, requested_path)
        canonical_workspace == canonicalize(links, workspace)
        canonical_path == canonicalize(links, full_path)
    IN  IF canonical_workspace = NoPath
        THEN ToolError("Cannot resolve workspace directory")
        ELSE IF canonical_path = NoPath
        THEN ToolError("Cannot resolve file path")
        ELSE IF ~starts_with(canonical_path, canonical_workspace)
        THEN ToolError("Access denied: path is outside the workspace directory")
        ELSE IF ~exists(links, canonical_path)
        THEN ToolError("File not found")
        ELSE IF ~is_file(links, canonical_path)
        THEN ToolError("Path is not a file")
        ELSE IF read_to_string(links, canonical_path) = NotText
        THEN ToolError("Failed to read file")
        ELSE IF offset >= Len(read_to_string(links, canonical_path))
        THEN ToolSuccess(<<>>)
        ELSE ToolSuccess(selected_lines(read_to_string(links, canonical_path),
                                        offset, max_lines))

\* context.workspace_dir of the calls: the workspace, a link to it, a
\* directory that does not exist
Workspaces == { <<"/", "ws">>, <<"/", "w">>, <<"/", "x">> }

\* params.path of the calls
RequestPaths ==
    { <<>>, <<"f">>, <<"d", "g">>, <<"b">>, <<"l">>, <<"d", "l">>, <<"l", "passwd">>,
      <<"d">>, <<"nofile">>, <<"f", "..", "f">>,
      <<"..", "etc", "passwd">>, <<"d", "..", "..", "etc", "passwd">>,
      <<"/", "etc", "passwd">>, <<"/", "ws", "f">>, <<"/", "ws", "l">>,
      <<"/", "w", "f">>, <<"/", "ws", "..", "etc", "passwd">> }

NoResult == [success |-> FALSE, content |-> <<>>, error |-> "not returned"]

\* a call of ReadFileTool::execute that has not run yet
ReadFileCall(workspace, path, offset, max_lines) ==
    /\ rf_pc = "called"
    /\ rf_call = [workspace_dir |-> workspace, path |-> path,
                  offset |-> offset, max_lines |-> max_lines]
    /\ rf_result = NoResult

\* ReadFileTool::execute on the call's parameters
read_file ==
    /\ UNCHANGED notFile
    /\ rf_pc = "called"
    /\ rf_pc' = "returned"
    /\ rf_result' = ReadFileOutcome(fs_links, rf_call.workspace_dir, rf_call.path,
                                    rf_call.offset, rf_call.max_lines)
    /\ UNCHANGED <<fs_links, rf_call>>

\* the unit test's call: /etc/passwd from a workspace without links
InitFile ==
    /\ fs_links = <<>>
    /\ ReadFileCall(<<"/", "ws">>, <<"/", "etc", "passwd">>, 0, 500)

\* every call of the model on every placement of the links
ReadFileCalls ==
    /\ fs_links \in LinkSets
    /\ \E workspace \in Workspaces, path \in RequestPaths,
          offset \in {0, 1, 2}, max_lines \in {1, 500} :
          ReadFileCall(workspace, path, offset, max_lines)

NextFile == read_file

\* ------------------------------------------------------------------------
\* Tool registry: policy at invocation time
\* ------------------------------------------------------------------------

\* calls of ToolRegistry::execute in a behaviour
MaxCalls == 2

\* the tools registered: name and access group
ToolDefs ==
    { [name |-> "read_file", group |-> "fs_read"],
      [name |-> "write_file", group |-> "fs_write"],
      [name |-> "exec", group |-> "exec"] }

\* the names execute is called with: the tools' names and a name of no tool
ToolNames == { t.name : t \in ToolDefs } \cup {"nonexistent"}

\* the groups a profile admits by default
ProfileGroups(profile) ==
    CASE profile = "ReadOnly" -> {"fs_read", "web"}
      [] profile = "Standard" -> {"fs_read", "web", "fs_write"}
      [] profile = "Full" -> {"fs_read", "web", "fs_write", "exec", "system"}
      [] OTHER -> {}

\* ToolConfig { profile, allow_list, deny_list }
ToolConfigs ==
    [profile : {"ReadOnly", "Standard", "Full", "Custom"},
     allow_list : { {}, {"exec"} },
     deny_list : { {}, {"exec"} }]

\* config: None
NoConfig == [profile |-> "none", allow_list |-> {}, deny_list |-> {}]

\* ToolConfig::is_tool_allowed: the profile's groups, the allow list as an
\* override when it is not empty, the deny list after both
is_tool_allowed(config, name, group) ==
    /\ IF config.allow_list # {} THEN name \in config.allow_list
       ELSE group \in ProfileGroups(config.profile)
    /\ name \notin config.deny_list

\* a faulty effective_config: the per-call config is ignored
effective_config_DefaultOnly(config, default_config) == default_config

\* config.unwrap_or(&self.default_config)
effective_config(config, default_config) ==
    IF config = NoConfig THEN default_config ELSE config

NoTool == "none"

\* ToolRegistry::register: the tool is stored under its name
register(tool) ==
    /\ UNCHANGED notReg
    /\ reg_tools' = MapInsert(reg_tools, tool.name, tool)
    /\ UNCHANGED <<reg_default_config, reg_calls, reg_call, reg_invoked, reg_result>>

\* ToolRegistry::set_default_config
set_default_config(config) ==
    /\ UNCHANGED notReg
    /\ reg_default_config' = config
    /\ UNCHANGED <<reg_tools, reg_calls, reg_call, reg_invoked, reg_result>>

\* ToolRegistry::execute(name, params, context, config)
registry_execute(name, config) ==
    /\ UNCHANGED notReg
    /\ reg_calls < MaxCalls
    /\ reg_calls' = reg_calls + 1
    /\ reg_call' = [name |-> name, config |-> config]
    /\ IF name \notin DOMAIN reg_tools
       THEN /\ reg_result' = ToolError("Tool not found")
            /\ reg_invoked' = NoTool
       ELSE IF ~is_tool_allowed(effective_config(config, reg_default_config),
                                name, reg_tools[name].group)
       THEN /\ reg_result' = ToolError("Tool is not allowed")
            /\ reg_invoked' = NoTool
       ELSE /\ reg_result' = ToolSuccess(<<"mock result">>)
            /\ reg_invoked' = reg_tools[name].name
    /\ UNCHANGED <<reg_tools, reg_default_config>>

\* ToolRegistry::new(), with the default of the unit tests' configs
InitReg ==
    /\ reg_tools = <<>>
    /\ reg_default_config = [profile |-> "Standard", allow_list |-> {}, deny_list |-> {}]
    /\ reg_calls = 0
    /\ reg_call = [name |-> NoTool, config |-> NoConfig]
    /\ reg_invoked = NoTool
    /\ reg_result = NoResult

NextReg ==
    \/ \E tool \in ToolDefs : register(tool)
    \/ \E config \in ToolConfigs : set_default_config(config)
    \/ \E name \in ToolNames, config \in ToolConfigs \cup {NoConfig} :
          registry_execute(name, config)

\* ------------------------------------------------------------------------
\* Hybrid search: ranking by reciprocal rank fusion
\* ------------------------------------------------------------------------

\* HybridSearcher.rrf_k
rrf_k == 60

\* rows the store ranks for one query, in each of its two rankings
MaxListLen == 3

RankIds == {"A", "B", "C", "D"}

\* a ranking: each memory at most once
RankedLists ==
    { l \in UNION { [1 .. n -> RankIds] : n \in 0 .. MaxListLen } :
        \A i, j \in DOMAIN l : i # j => l[i] # l[j] }

\* into_iter().take(n), and LIMIT n of a query
Take(l, n) == SubSeq(l, 1, IF n < Len(l) THEN n ELSE Len(l))

\* scores are counted in units of 1 / ((k + 1) * ... * (k + MaxListLen)),
\* in which every 1 / (k + rank) is a whole number; the sums of the model
\* differ by far more than the rounding of an f64
RECURSIVE ScoreUnit(_)
ScoreUnit(n) == IF n = 0 THEN 1 ELSE (rrf_k + n) * ScoreUnit(n - 1)

\* 1.0 / (self.rrf_k + (rank + 1) as f64), for the 1-based rank
rrf_score(rank) == ScoreUnit(MaxListLen) \div (rrf_k + rank)

\* Option<i32>: None
NoRank == 0

\* one loop of reciprocal_rank_fusion over a list: the entry of each id gets
\* the score of its rank added and the rank recorded (the BM25 loop also
\* keeps the memory)
RECURSIVE AddScores(_, _, _, _)
AddScores(scores, list, rank, from_bm25) ==
    IF rank > Len(list) THEN scores
    ELSE LET id == list[rank]
             entry == IF id \in DOMAIN scores THEN scores[id]
                      ELSE [id |-> id, score |-> 0, bm25_rank |-> NoRank,
                            vector_rank |-> NoRank, memory |-> FALSE]
             added == IF from_bm25
                      THEN [entry EXCEPT !.score = @ + rrf_score(rank),
                                         !.bm25_rank = rank, !.memory = TRUE]
                      ELSE [entry EXCEPT !.score = @ + rrf_score(rank),
                                         !.vector_rank = rank]
         IN  AddScores(MapInsert(scores, id, added), list, rank + 1, from_bm25)

\* a faulty sort_by_score: the results stay in the order of the map
sort_by_score_Unsorted(results) == results

\* results.sort_by(score descending): a stable sort, equal scores stay in
\* the order they came in
RECURSIVE sort_by_score(_)
sort_by_score(results) ==
    IF results = <<>> THEN <<>>
    ELSE LET sorted == sort_by_score(SubSeq(results, 1, Len(results) - 1))
             x == results[Len(results)]
             k == Cardinality({ i \in DOMAIN sorted : sorted[i].score >= x.score })
         IN  SubSeq(sorted, 1, k) \o <<x>> \o SubSeq(sorted, k + 1, Len(sorted))

\* the orders in which a HashMap with the keys S may be iterated
IterationOrders(S) ==
    { o \in [1 .. Cardinality(S) -> S] : \A i, j \in DOMAIN o : i # j => o[i] # o[j] }

\* SearchResult { memory, score, bm25_rank, vector_rank }
SearchResult(id, score, bm25_rank, vector_rank) ==
    [id |-> id, score |-> score, bm25_rank |-> bm25_rank, vector_rank |-> vector_rank]

\* reciprocal_rank_fusion with its ranking: the scores map is iterated in
\* the order `order`; an entry without a memory from BM25 is fetched by id
\* and dropped when the row is gone; the rest is sorted and truncated
ranked_fusion(bm25_results, vector_results, limit, order, gone) ==
    LET scores == AddScores(AddScores(<<>>, bm25_results, 1, TRUE), vector_results, 1, FALSE)
        entries == [i \in 1 .. Len(order) |-> scores[order[i]]]
        kept == SelectSeq(entries, LAMBDA e : e.memory \/ e.id \notin gone)
        results == [i \in 1 .. Len(kept) |->
                      SearchResult(kept[i].id, kept[i].score,
                                   kept[i].bm25_rank, kept[i].vector_rank)]
    IN  Take(sort_by_score(results), limit)

\* a faulty bm25_only: the BM25 rows are not truncated to limit
bm25_only_NoTake(bm25_results, limit) ==
    [i \in 1 .. Len(bm25_results) |->
        SearchResult(bm25_results[i], MaxListLen + 1 - i, 1, NoRank)]

\* the BM25 fallback of search: the first limit rows, score -r.rank (the
\* BM25 relevance, falling along the list), bm25_rank Some(1)
bm25_only(bm25_results, limit) ==
    [i \in 1 .. Len(Take(bm25_results, limit)) |->
        SearchResult(bm25_results[i], MaxListLen + 1 - i, 1, NoRank)]

SearchOk(results) == [ok |-> TRUE, error |-> "none", results |-> results]
SearchErr(e) == [ok |-> FALSE, error |-> e, results |-> <<>>]

\* HybridSearcher::search: the two queries ask for limit * 2 rows
search(call, order, gone) ==
    LET bm25_results == Take(call.bm25, call.limit * 2)
        vector_results == Take(call.vector, call.limit * 2)
    IN  IF call.fault = "bm25" THEN SearchErr("BM25 search failed")
        ELSE IF ~call.enabled THEN SearchOk(bm25_only(bm25_results, call.limit))
        ELSE IF call.fault = "embed" THEN SearchOk(bm25_only(bm25_results, call.limit))
        ELSE IF call.fault = "vector" THEN SearchErr("Failed to prepare vector search")
        ELSE SearchOk(ranked_fusion(bm25_results, vector_results, call.limit, order, gone))

\* whether the call gets as far as the fusion
Fuses(call) == call.enabled /\ call.fault = "none"

\* a call of search that has not run yet: the rows the store ranks for the
\* query by BM25 and by similarity, the limit, whether vector search is
\* enabled, and what fails during the call
RankCall(bm25, vector, limit, enabled, fault) ==
    /\ rank_pc = "called"
    /\ rank_call = [bm25 |-> bm25, vector |-> vector, limit |-> limit,
                    enabled |-> enabled, fault |-> fault]
    /\ rank_gone = {}
    /\ rank_result = SearchErr("not returned")

\* HybridSearcher::search on the call's parameters
hybrid_search(order, gone) ==
    /\ UNCHANGED notRank
    /\ rank_pc = "called"
    /\ rank_pc' = "returned"
    /\ rank_gone' = IF Fuses(rank_call) THEN gone ELSE {}
    /\ rank_result' = search(rank_call, order, gone)
    /\ UNCHANGED rank_call

\* BM25 ranks [A, B, C], vector ranks [C, D, A], limit 3
InitRank == RankCall(<<"A", "B", "C">>, <<"C", "D", "A">>, 3, TRUE, "none")

\* every call of the model
RankCalls ==
    \E bm25 \in RankedLists, vector \in RankedLists, limit \in 1 .. MaxListLen,
       enabled \in BOOLEAN, fault \in {"none", "bm25", "embed", "vector"} :
        RankCall(bm25, vector, limit, enabled, fault)

\* the fetched ids are those the vector list has and the BM25 list has not
NextRank ==
    \E order \in IterationOrders(Range(Take(rank_call.bm25, rank_call.limit * 2))
                                 \cup Range(Take(rank_call.vector, rank_call.limit * 2))),
       gone \in SUBSET (Range(Take(rank_call.vector, rank_call.limit * 2))
                        \ Range(Take(rank_call.bm25, rank_call.limit * 2))) :
        hybrid_search(order, gone)

\* ------------------------------------------------------------------------
\* Skill registry
\* ------------------------------------------------------------------------
SkillNames == {"a", "b"}

\* SkillSource, in the order load_all reads the directories
SkillSources == <<"Bundled", "Managed", "Workspace">>

\* the contents a skill file of one name can have
SkillVersions == {1, 2}

\* SkillSource::priority: bundled < managed < workspace
priority(source) ==
    CASE source = "Bundled" -> 0
      [] source = "Managed" -> 1
      [] OTHER -> 2

Skill(name, source, version, enabled) ==
    [name |-> name, enabled |-> enabled, source |-> source, version |-> version]

\* load_skills_from_directory(path, source): the files of the directory as
\* skills of that source, enabled (an unreadable directory gives none)
load_skills_from_directory(disk, source) ==
    [i \in DOMAIN disk[source] |->
        Skill(disk[source][i][1], source, disk[source][i][2], TRUE)]

\* the directory contents of the model: <<name, version>> per file
SkillDisks ==
    { [Bundled |-> <<<<"a", 1>>, <<"b", 1>>>>, Managed |-> <<>>, Workspace |-> <<<<"a", 2>>>>],
      [Bundled |-> <<<<"a", 1>>>>, Managed |-> <<<<"a", 2>>, <<"b", 2>>>>, Workspace |-> <<>>],
      [Bundled |-> <<>>, Managed |-> <<>>, Workspace |-> <<<<"b", 1>>>>] }

\* a faulty register: the new skill is stored whatever its source
registered_Always(skills, skill) == MapInsert(skills, skill.name, skill)

\* the map after register(skill)
registered(skills, skill) ==
    IF skill.name \in DOMAIN skills
    THEN IF priority(skill.source) >= priority(skills[skill.name].source)
         THEN MapInsert(skills, skill.name, skill)
         ELSE skills
    ELSE MapInsert(skills, skill.name, skill)

\* no registration of any name since the last clear
NoneRegistered == [n \in SkillNames |-> [src \in Range(SkillSources) |-> 0]]

\* the registrations since the last clear, with skill the latest of them
Noted(latest, skill) == [latest EXCEPT ![skill.name][skill.source] = skill.version]

\* what a reader gets back
get(skills, name) == IF name \in DOMAIN skills THEN {skills[name]} ELSE {}
list(skills) == { skills[n] : n \in DOMAIN skills }
list_enabled(skills) == { skills[n] : n \in { x \in DOMAIN skills : skills[x].enabled } }
has_skill(skills, name) == name \in DOMAIN skills

Observe(op, name, skills) ==
    CASE op = "get" -> get(skills, name)
      [] op = "list" -> list(skills)
      [] op = "list_enabled" -> list_enabled(skills)
      [] OTHER -> IF has_skill(skills, name) THEN {name} ELSE {}

Seen(op, name, result, during) ==
    [op |-> op, name |-> name, result |-> result, during |-> during]

NoSeen == Seen("none", "none", {}, FALSE)

NotReloading == [reloading |-> FALSE, skills |-> <<>>]

\* register(skill), called by itself
register_skill(skill) ==
    /\ UNCHANGED notSkill
    /\ sk_pc = "idle"
    /\ sk_skills' = registered(sk_skills, skill)
    /\ sk_latest' = Noted(sk_latest, skill)
    /\ sk_seen' = NoSeen
    /\ UNCHANGED <<sk_disk, sk_pc, sk_queue, sk_before>>

\* set_enabled(name, enabled) on a registered skill
set_enabled(name, enabled) ==
    /\ UNCHANGED notSkill
    /\ name \in DOMAIN sk_skills
    /\ sk_skills' = [sk_skills EXCEPT ![name].enabled = enabled]
    /\ sk_seen' = NoSeen
    /\ UNCHANGED <<sk_disk, sk_latest, sk_pc, sk_queue, sk_before>>

\* reload: the map is cleared under its own write lock, then load_all starts
\* with the bundled directory
reload_clear ==
    /\ UNCHANGED notSkill
    /\ sk_pc = "idle"
    /\ sk_before' = [reloading |-> TRUE, skills |-> sk_skills]
    /\ sk_skills' = <<>>
    /\ sk_latest' = NoneRegistered
    /\ sk_pc' = SkillSources[1]
    /\ sk_queue' = load_skills_from_directory(sk_disk, SkillSources[1])
    /\ sk_seen' = NoSeen
    /\ UNCHANGED sk_disk

\* load_all called at startup, with no clear before it
load_all_start ==
    /\ UNCHANGED notSkill
    /\ sk_pc = "idle"
    /\ sk_pc' = SkillSources[1]
    /\ sk_queue' = load_skills_from_directory(sk_disk, SkillSources[1])
    /\ sk_seen' = NoSeen
    /\ UNCHANGED <<sk_skills, sk_disk, sk_latest, sk_before>>

\* load_all: self.register(skill) for the next skill of the directory
load_register ==
    /\ UNCHANGED notSkill
    /\ sk_pc # "idle"
    /\ sk_queue # <<>>
    /\ sk_skills' = registered(sk_skills, Head(sk_queue))
    /\ sk_latest' = Noted(sk_latest, Head(sk_queue))
    /\ sk_queue' = Tail(sk_queue)
    /\ sk_seen' = NoSeen
    /\ UNCHANGED <<sk_disk, sk_pc, sk_before>>

\* the position of a source in SkillSources
SourceIndex(source) == CHOOSE i \in DOMAIN SkillSources : SkillSources[i] = source

\* load_all: the next directory is read, or load_all returns
load_next ==
    /\ UNCHANGED notSkill
    /\ sk_pc # "idle"
    /\ sk_queue = <<>>
    /\ IF SourceIndex(sk_pc) < Len(SkillSources)
       THEN /\ sk_pc' = SkillSources[SourceIndex(sk_pc) + 1]
            /\ sk_queue' = load_skills_from_directory(sk_disk, SkillSources[SourceIndex(sk_pc) + 1])
            /\ UNCHANGED sk_before
       ELSE /\ sk_pc' = "idle"
            /\ sk_before' = NotReloading
            /\ UNCHANGED sk_queue
    /\ sk_seen' = NoSeen
    /\ UNCHANGED <<sk_skills, sk_disk, sk_latest>>

\* a reader takes the read lock and returns what the map holds
read_skills(op, name) ==
    /\ UNCHANGED notSkill
    /\ sk_seen' = Seen(op, name, Observe(op, name, sk_skills), sk_before.reloading)
    /\ UNCHANGED <<sk_skills, sk_disk, sk_latest, sk_pc, sk_queue, sk_before>>

\* the whole map load_all leaves when it starts from skills
RECURSIVE RegisterAll(_, _)
RegisterAll(skills, queue) ==
    IF queue = <<>> THEN skills
    ELSE RegisterAll(registered(skills, Head(queue)), Tail(queue))

load_all(skills, disk) ==
    RegisterAll(skills,
                load_skills_from_directory(disk, SkillSources[1])
                    \o load_skills_from_directory(disk, SkillSources[2])
                    \o load_skills_from_directory(disk, SkillSources[3]))

SkillReads ==
    { <<"get", "a">>, <<"list", "none">>, <<"list_enabled", "none">>, <<"has_skill", "b">> }

InitSkill ==
    /\ sk_skills = <<>>
    /\ sk_disk = [Bundled |-> <<<<"a", 1>>, <<"b", 1>>>>, Managed |-> <<>>,
                  Workspace |-> <<<<"a", 2>>>>]
    /\ sk_latest = NoneRegistered
    /\ sk_pc = "idle"
    /\ sk_queue = <<>>
    /\ sk_before = NotReloading
    /\ sk_seen = NoSeen

NextSkill ==
    \/ \E n \in SkillNames, src \in Range(SkillSources), v \in SkillVersions :
          register_skill(Skill(n, src, v, TRUE))
    \/ \E n \in SkillNames, e \in BOOLEAN : set_enabled(n, e)
    \/ reload_clear
    \/ load_all_start
    \/ load_register
    \/ load_next
    \/ \E r \in SkillReads : read_skills(r[1], r[2])

\* ------------------------------------------------------------------------
\* Claude adapter
\* ------------------------------------------------------------------------

\* Option::None of a content block's field
Absent == <<"None">>

\* ClaudeContent { content_type, text, id, name, input }; a text is a
\* sequence of characters
Block(content_type, text, id, name, input) ==
    [content_type |-> content_type, text |-> text, id |-> id, name |-> name, input |-> input]

\* the content blocks a provider sends
ContentBlocks ==
    { Block("text", <<"h", "i">>, Absent, Absent, Absent),
      Block("text", <<>>, Absent, Absent, Absent),
      Block("text", Absent, Absent, Absent, Absent),
      Block("tool_use", Absent, <<"t", "1">>, <<"e", "x">>, <<"{", "}">>),
      Block("tool_use", Absent, Absent, <<"e", "x">>, <<"{", "}">>),
      Block("thinking", Absent, Absent, Absent, Absent) }

\* blocks in one response
MaxBlocks == 2

Responses == UNION { [1 .. n -> ContentBlocks] : n \in 0 .. MaxBlocks }

\* how the HTTP exchange ends: a parsed body, or one of the failures
Transports == {"ok", "request failed", "error status", "unparsable body"}

AiErr(e) == [ok |-> FALSE, content |-> <<>>, tool_calls |-> <<>>, error |-> e]
AiOk(content, tool_calls) ==
    [ok |-> TRUE, content |-> content, tool_calls |-> tool_calls, error |-> "none"]

\* the texts of the text blocks, concatenated
RECURSIVE TextOf(_)
TextOf(content) ==
    IF content = <<>> THEN <<>>
    ELSE (IF Head(content).content_type = "text" /\ Head(content).text # Absent
          THEN Head(content).text ELSE <<>>) \o TextOf(Tail(content))

\* the tool_use blocks that carry id, name and input, as ToolCall
RECURSIVE ToolCallsOf(_)
ToolCallsOf(content) ==
    IF content = <<>> THEN <<>>
    ELSE (IF /\ Head(content).content_type = "tool_use"
             /\ Head(content).id # Absent
             /\ Head(content).name # Absent
             /\ Head(content).input # Absent
          THEN <<[id |-> Head(content).id, name |-> Head(content).name,
                  arguments |-> Head(content).input]>>
          ELSE <<>>) \o ToolCallsOf(Tail(content))

\* the failures both methods return before they look at the content
TransportError(transport) ==
    CASE transport = "request failed" -> AiErr("Claude API request failed")
      [] transport = "error status" -> AiErr("Claude API returned error status")
      [] OTHER -> AiErr("Failed to parse Claude response")

generate_text(transport, content) ==
    IF transport # "ok" THEN TransportError(transport)
    ELSE IF TextOf(content) = <<>> THEN AiErr("Claude API returned no content")
    ELSE AiOk(TextOf(content), <<>>)

generate_with_tools(transport, content) ==
    IF transport # "ok" THEN TransportError(transport)
    ELSE AiOk(TextOf(content), ToolCallsOf(content))

AiCall(method, transport, content) ==
    /\ ai_pc = "called"
    /\ ai_call = [method |-> method, transport |-> transport, content |-> content]
    /\ ai_result = AiErr("not returned")

\* the method runs to its return
generate ==
    /\ UNCHANGED notLlm
    /\ ai_pc = "called"
    /\ ai_pc' = "returned"
    /\ ai_result' = IF ai_call.method = "generate_text"
                    THEN generate_text(ai_call.transport, ai_call.content)
                    ELSE generate_with_tools(ai_call.transport, ai_call.content)
    /\ UNCHANGED ai_call

InitLlm == AiCall("generate_text", "ok", <<Block("text", <<"h", "i">>, Absent, Absent, Absent)>>)

AiCalls ==
    \E method \in {"generate_text", "generate_with_tools"}, transport \in Transports,
       content \in Responses :
        AiCall(method, transport, content)

NextLlm == generate

\* ------------------------------------------------------------------------
\* web3_tx tool
\* ------------------------------------------------------------------------

\* Option::Some of a value
Some(v) == <<"Some", v>>

\* a caller's string parameter, by what parse::<U256>() makes of it
Unparsable == -1
TxParams == {Absent, Some(Unparsable), Some(50)}

\* what estimate_gas and estimate_eip1559_fees answer: an error or a value
RpcFailed == <<"Err">>
GasEstimates == {RpcFailed, Some(101)}
FeeEstimates == {RpcFailed, Some(<<9, 2>>)}

\* what wait_for_receipt answers: no receipt within the wait, or a receipt
\* with its status (Option<U64>)
Timeout == <<"Err", "timeout">>
Receipts == {Timeout, Some(Absent), Some(Some(0)), Some(Some(1))}

\* 1 gwei
DefaultPriorityFee == 1000000000

NoRequest == [built |-> FALSE, gas |-> 0, max_fee_per_gas |-> 0, max_priority_fee_per_gas |-> 0]
Request(gas, max_fee, priority_fee) ==
    [built |-> TRUE, gas |-> gas, max_fee_per_gas |-> max_fee,
     max_priority_fee_per_gas |-> priority_fee]

NoHash == "none"
NoReceipt == <<"none">>
TxErr(e) == [ok |-> FALSE, status |-> "none", error |-> e]
TxOk(status) == [ok |-> TRUE, status |-> status, error |-> "none"]
NotReturned == [ok |-> FALSE, status |-> "none", error |-> "not returned"]

TxEvent(event, hash, status) == [event |-> event, tx_hash |-> hash, status |-> status]

\* the gas limit: the caller's, or the estimate with a 20% buffer
gas(gas_limit, estimate) ==
    IF gas_limit # Absent THEN gas_limit[2] ELSE (estimate[2] * 120) \div 100

\* (max_fee, priority_fee): the caller's max fee with the caller's priority
\* fee or 1 gwei, or both as the network suggests them
fees(max_fee_per_gas, max_priority_fee_per_gas, estimate) ==
    IF max_fee_per_gas # Absent
    THEN <<max_fee_per_gas[2],
           IF max_priority_fee_per_gas # Absent THEN max_priority_fee_per_gas[2]
           ELSE DefaultPriorityFee>>
    ELSE estimate[2]

\* the first failure on the way to the transaction request, "none" if none
BuildError(call) ==
    IF ~call.nonce_ok THEN "get_transaction_count failed"
    ELSE IF call.gas_limit = Some(Unparsable) THEN "Invalid gas_limit"
    ELSE IF call.gas_limit = Absent /\ call.estimate_gas = RpcFailed
    THEN "estimate_gas failed"
    ELSE IF call.max_fee_per_gas = Some(Unparsable) THEN "Invalid max_fee_per_gas"
    ELSE IF /\ call.max_fee_per_gas # Absent
            /\ call.max_priority_fee_per_gas = Some(Unparsable)
    THEN "Invalid max_priority_fee_per_gas"
    ELSE IF call.max_fee_per_gas = Absent /\ call.estimate_eip1559_fees = RpcFailed
    THEN "estimate_eip1559_fees failed"
    ELSE "none"

status_Always(receipt_status) == "confirmed"

\* "confirmed" when the receipt's status is 1, "reverted" otherwise
status(receipt_status) ==
    IF receipt_status = Some(1) THEN "confirmed" ELSE "reverted"

TxCall(gas_limit, max_fee_per_gas, max_priority_fee_per_gas, broadcaster, channel_id,
       nonce_ok, estimate_gas, estimate_eip1559_fees, sign_ok, send_ok, receipt) ==
    /\ tx_pc = "called"
    /\ tx_call = [gas_limit |-> gas_limit, max_fee_per_gas |-> max_fee_per_gas,
                  max_priority_fee_per_gas |-> max_priority_fee_per_gas,
                  broadcaster |-> broadcaster, channel_id |-> channel_id,
                  nonce_ok |-> nonce_ok, estimate_gas |-> estimate_gas,
                  estimate_eip1559_fees |-> estimate_eip1559_fees,
                  sign_ok |-> sign_ok, send_ok |-> send_ok, receipt |-> receipt]
    /\ tx_request = NoRequest
    /\ tx_hash = NoHash
    /\ tx_receipt = NoReceipt
    /\ tx_events = <<>>
    /\ tx_result = NotReturned

\* nonce, gas limit and fees, up to the built request
build_transaction ==
    /\ UNCHANGED notTx
    /\ tx_pc = "called"
    /\ IF BuildError(tx_call) # "none"
       THEN /\ tx_pc' = "returned"
            /\ tx_result' = TxErr(BuildError(tx_call))
            /\ UNCHANGED tx_request
       ELSE /\ tx_pc' = "built"
            /\ tx_request' =
                   Request(gas(tx_call.gas_limit, tx_call.estimate_gas),
                           fees(tx_call.max_fee_per_gas, tx_call.max_priority_fee_per_gas,
                                tx_call.estimate_eip1559_fees)[1],
                           fees(tx_call.max_fee_per_gas, tx_call.max_priority_fee_per_gas,
                                tx_call.estimate_eip1559_fees)[2])
            /\ UNCHANGED tx_result
    /\ UNCHANGED <<tx_call, tx_hash, tx_receipt, tx_events>>

\* wallet.sign_transaction
sign_transaction ==
    /\ UNCHANGED notTx
    /\ tx_pc = "built"
    /\ IF tx_call.sign_ok
       THEN tx_pc' = "signed" /\ UNCHANGED tx_result
       ELSE tx_pc' = "returned" /\ tx_result' = TxErr("Failed to sign transaction")
    /\ UNCHANGED <<tx_call, tx_request, tx_hash, tx_receipt, tx_events>>

\* rpc.send_raw_transaction
send_raw_transaction ==
    /\ UNCHANGED notTx
    /\ tx_pc = "signed"
    /\ IF tx_call.send_ok
       THEN tx_pc' = "sent" /\ tx_hash' = "0xh" /\ UNCHANGED tx_result
       ELSE /\ tx_pc' = "returned"
            /\ tx_result' = TxErr("send_raw_transaction failed")
            /\ UNCHANGED tx_hash
    /\ UNCHANGED <<tx_call, tx_request, tx_receipt, tx_events>>

\* the tx.pending event, when there is a broadcaster and a channel id
tx_pending ==
    /\ UNCHANGED notTx
    /\ tx_pc = "sent"
    /\ tx_pc' = "waiting"
    /\ tx_events' = IF tx_call.broadcaster /\ tx_call.channel_id
                    THEN Append(tx_events, TxEvent("tx.pending", tx_hash, "pending"))
                    ELSE tx_events
    /\ UNCHANGED <<tx_call, tx_request, tx_hash, tx_receipt, tx_result>>

\* rpc.wait_for_receipt, up to 120 s
wait_for_receipt ==
    /\ UNCHANGED notTx
    /\ tx_pc = "waiting"
    /\ IF tx_call.receipt = Timeout
       THEN /\ tx_pc' = "returned"
            /\ tx_result' = TxErr("wait_for_receipt failed")
            /\ UNCHANGED tx_receipt
       ELSE /\ tx_pc' = "received"
            /\ tx_receipt' = tx_call.receipt
            /\ UNCHANGED tx_result
    /\ UNCHANGED <<tx_call, tx_request, tx_hash, tx_events>>

\* the tx.confirmed event, when there is a broadcaster and a channel id, and
\* the return
tx_confirmed ==
    /\ UNCHANGED notTx
    /\ tx_pc = "received"
    /\ tx_pc' = "returned"
    /\ tx_events' = IF tx_call.broadcaster /\ tx_call.channel_id
                    THEN Append(tx_events,
                                TxEvent("tx.confirmed", tx_hash, status(tx_receipt[2])))
                    ELSE tx_events
    /\ tx_result' = TxOk(status(tx_receipt[2]))
    /\ UNCHANGED <<tx_call, tx_request, tx_hash, tx_receipt>>

InitTx ==
    TxCall(Absent, Absent, Absent, TRUE, TRUE, TRUE, Some(101), Some(<<9, 2>>), TRUE, TRUE,
           Some(Some(1)))

TxCalls ==
    \E gas_limit \in TxParams, max_fee_per_gas \in TxParams,
       max_priority_fee_per_gas \in TxParams, broadcaster \in BOOLEAN,
       channel_id \in BOOLEAN, nonce_ok \in BOOLEAN, estimate_gas \in GasEstimates,
       estimate_eip1559_fees \in FeeEstimates, sign_ok \in BOOLEAN, send_ok \in BOOLEAN,
       receipt \in Receipts :
        TxCall(gas_limit, max_fee_per_gas, max_priority_fee_per_gas, broadcaster,
               channel_id, nonce_ok, estimate_gas, estimate_eip1559_fees, sign_ok,
               send_ok, receipt)

NextTx ==
    \/ build_transaction
    \/ sign_transaction
    \/ send_raw_transaction
    \/ tx_pending
    \/ wait_for_receipt
    \/ tx_confirmed

\* ------------------------------------------------------------------------
\* Channel utilities
\* ------------------------------------------------------------------------

\* a text is a sequence of characters
MaxTextLen == 5
MaxLimit == 3
TextChars == {"a", "b", "\n"}
Texts == UNION { [1 .. n -> TextChars] : n \in 0 .. MaxTextLen }

\* str::lines: the lines between newlines; a final newline ends the last line
\* and opens no further one
RECURSIVE LinesFrom(_, _, _)
LinesFrom(text, line, acc) ==
    IF text = <<>> THEN (IF line # <<>> THEN Append(acc, line) ELSE acc)
    ELSE IF Head(text) = "\n" THEN LinesFrom(Tail(text), <<>>, Append(acc, line))
    ELSE LinesFrom(Tail(text), Append(line, Head(text)), acc)

lines(text) == LinesFrom(text, <<>>, <<>>)

\* while remaining.len() > max_len: push the first max_len characters;
\* gives <<chunks, remaining>>
RECURSIVE HardSplit(_, _, _)
HardSplit(remaining, max_len, chunks) ==
    IF Len(remaining) > max_len
    THEN HardSplit(SubSeq(remaining, max_len + 1, Len(remaining)), max_len,
                   Append(chunks, SubSeq(remaining, 1, max_len)))
    ELSE <<chunks, remaining>>

\* the loop over the lines and the push of the last chunk
RECURSIVE SplitLines(_, _, _, _)
SplitLines(ls, max_len, chunks, current) ==
    IF ls = <<>> THEN (IF current # <<>> THEN Append(chunks, current) ELSE chunks)
    ELSE LET line == Head(ls)
             flushed == IF current # <<>> THEN Append(chunks, current) ELSE chunks
         IN IF Len(current) + Len(line) + 1 > max_len
            THEN IF Len(line) > max_len
                 THEN SplitLines(Tail(ls), max_len, HardSplit(line, max_len, flushed)[1],
                                 HardSplit(line, max_len, flushed)[2])
                 ELSE SplitLines(Tail(ls), max_len, flushed, line)
            ELSE SplitLines(Tail(ls), max_len, chunks,
                            (IF current # <<>> THEN Append(current, "\n") ELSE current)
                                \o line)

split_message(text, max_len) ==
    IF Len(text) <= max_len THEN <<text>>
    ELSE SplitLines(lines(text), max_len, <<>>, <<>>)

SplitCall(text, max_len) ==
    /\ sm_pc = "called"
    /\ sm_call = [text |-> text, max_len |-> max_len]
    /\ sm_result = <<>>

\* the function runs to its return
split ==
    /\ UNCHANGED notUtil
    /\ sm_pc = "called"
    /\ sm_pc' = "returned"
    /\ sm_result' = split_message(sm_call.text, sm_call.max_len)
    /\ UNCHANGED <<sm_call, ev_pc, ev_call, ev_result>>

\* a serde_json::Value by its type and content: null, a boolean, an integer
\* or a float number, a string; Absent is a key the object does not have
JsonValues ==
    { Absent, <<"null">>, <<"bool", TRUE>>, <<"i64", 1>>, <<"i64", 2>>, <<"f64", "1.5">>,
      <<"str", "c1">>, <<"str", "c2">>, <<"str", "1">> }

\* Value::as_i64 under and_then: the integer of an integer number
as_i64(v) == IF v[1] = "i64" THEN Some(v[2]) ELSE Absent

\* Value::as_str under and_then: the text of a string
as_str(v) == IF v[1] = "str" THEN Some(v[2]) ELSE Absent

event_matches_session(data, channel_id, chat_id) ==
    LET ev_channel_id == as_i64(data.channel_id)
        ev_chat_id == as_str(data.chat_id)
    IN IF ev_channel_id # Absent /\ ev_chat_id # Absent
       THEN ev_channel_id[2] = channel_id /\ ev_chat_id[2] = chat_id
       ELSE IF ev_channel_id # Absent THEN ev_channel_id[2] = channel_id
       ELSE FALSE

EventCall(data, channel_id, chat_id) ==
    /\ ev_pc = "called"
    /\ ev_call = [data |-> data, channel_id |-> channel_id, chat_id |-> chat_id]
    /\ ev_result = FALSE

\* the function runs to its return
matches ==
    /\ UNCHANGED notUtil
    /\ ev_pc = "called"
    /\ ev_pc' = "returned"
    /\ ev_result' = event_matches_session(ev_call.data, ev_call.channel_id, ev_call.chat_id)
    /\ UNCHANGED <<ev_call, sm_pc, sm_call, sm_result>>

InitUtil ==
    /\ SplitCall(<<"a", "\n", "b">>, 2)
    /\ EventCall([channel_id |-> <<"i64", 1>>, chat_id |-> Absent], 1, "c1")

SplitCalls == \E text \in Texts, max_len \in 1 .. MaxLimit : SplitCall(text, max_len)

EventCalls ==
    \E ev_channel \in JsonValues, ev_chat \in JsonValues, channel_id \in {1, 2},
       chat_id \in {"c1", "c2"} :
        EventCall([channel_id |-> ev_channel, chat_id |-> ev_chat], channel_id, chat_id)

NextSplit == split

NextEvent == matches

\* ------------------------------------------------------------------------
\* Concurrent add_to_task_metrics
\* ------------------------------------------------------------------------

Callers == {1, 2}
Shards == {1, 2}
NoHolder == 0

\* the map the concurrent calls start from: start_execution(1) and
\* start_task(1, 1, tool_execution) have run
AddTasks ==
    LET root == TaskStart(NewTask(1, 1, "execution", NoParent))
        child == TaskStart(NewTask(2, 1, "tool_execution", 1))
    IN MapInsert(BumpParent(MapInsert(<<>>, root.id, root), 1), child.id, child)

\* how the keys fall into the shards: all into one, or each into its own
ShardMaps == { [id \in TaskIds |-> 1], [id \in TaskIds |-> IF id = 1 THEN 1 ELSE 2] }

shard_free_Always(lock, shard) == TRUE

\* DashMap::get_mut gets the shard's write lock when nobody holds it
shard_free(lock, shard) == lock[shard] = NoHolder

\* GatewayEvent::task_updated(task_id, channel_id, metrics)
task_updated(task_id, channel_id, metrics) ==
    [task_id |-> task_id, channel_id |-> channel_id, metrics |-> metrics]

\* self.tasks.get_mut(task_id): Some with the guard, or None
am_get_mut(c) ==
    /\ UNCHANGED notAdd
    /\ am_pc[c] = "called"
    /\ shard_free(am_lock, am_shard[am_call[c].task_id])
    /\ IF am_call[c].task_id \in DOMAIN tasks
       THEN /\ am_pc' = [am_pc EXCEPT ![c] = "guarded"]
            /\ am_lock' = [am_lock EXCEPT ![am_shard[am_call[c].task_id]] = c]
       ELSE /\ am_pc' = [am_pc EXCEPT ![c] = "returned"]
            /\ UNCHANGED am_lock
    /\ UNCHANGED <<trackerVars, am_call, am_local, am_shard, am_applied, am_log>>

\* the += read the metrics
am_load(c) ==
    /\ UNCHANGED notAdd
    /\ am_pc[c] = "guarded"
    /\ am_pc' = [am_pc EXCEPT ![c] = "loaded"]
    /\ am_local' = [am_local EXCEPT ![c] = tasks[am_call[c].task_id]]
    /\ UNCHANGED <<trackerVars, am_call, am_lock, am_shard, am_applied, am_log>>

\* the += write the sums
am_store(c) ==
    /\ UNCHANGED notAdd
    /\ am_pc[c] = "loaded"
    /\ am_pc' = [am_pc EXCEPT ![c] = "stored"]
    /\ LET inc == am_call[c].inc
           task == AddMetrics(am_local[c], inc[1], inc[2], inc[3])
       IN /\ tasks' = [tasks EXCEPT ![am_call[c].task_id] = task]
          /\ am_applied' =
                 Append(am_applied, task_updated(task.id, task.channel_id, task.metrics))
    /\ UNCHANGED <<channel_executions, next_task_id, completed_event>>
    /\ UNCHANGED <<am_call, am_local, am_lock, am_shard, am_log>>

\* self.broadcaster.broadcast(GatewayEvent::task_updated(.., &task.metrics.clone()))
am_broadcast(c) ==
    /\ UNCHANGED notAdd
    /\ am_pc[c] = "stored"
    /\ am_pc' = [am_pc EXCEPT ![c] = "emitted"]
    /\ LET task == tasks[am_call[c].task_id]
       IN am_log' = Append(am_log, task_updated(task.id, task.channel_id, task.metrics))
    /\ UNCHANGED <<trackerVars, am_call, am_local, am_lock, am_shard, am_applied>>

\* the guard is dropped at the end of the if let block
am_drop(c) ==
    /\ UNCHANGED notAdd
    /\ am_pc[c] = "emitted"
    /\ am_pc' = [am_pc EXCEPT ![c] = "returned"]
    /\ am_lock' = [am_lock EXCEPT ![am_shard[am_call[c].task_id]] = NoHolder]
    /\ UNCHANGED <<trackerVars, am_call, am_local, am_shard, am_applied, am_log>>

AddCalls(calls, shards) ==
    /\ am_pc = [c \in Callers |-> "called"]
    /\ am_call = calls
    /\ am_local = [c \in Callers |-> TaskStart(NewTask(1, 1, "execution", NoParent))]
    /\ am_lock = [s \in Shards |-> NoHolder]
    /\ am_shard = shards
    /\ am_applied = <<>>
    /\ am_log = <<>>

InitAdd ==
    AddCalls([c \in Callers |-> [task_id |-> 1, inc |-> <<1, 0, 0>>]], [id \in TaskIds |-> 1])

NextAdd ==
    \/ \E c \in Callers : am_get_mut(c)
    \/ \E c \in Callers : am_load(c)
    \/ \E c \in Callers : am_store(c)
    \/ \E c \in Callers : am_broadcast(c)
    \/ \E c \in Callers : am_drop(c)

\* ------------------------------------------------------------------------
\* Concurrent callers of the memory store
\* ------------------------------------------------------------------------

StoreCallers == {1, 2}

\* the steps of each operation, in program order: "lock" is
\* self.conn.lock().unwrap(), "drop" the end of the guard, "embed" and
\* "embed_batch" the awaits, the others the statements run under the guard
embed_memory_steps == <<"embed", "lock", "insert_embedding", "drop">>

backfill_embeddings_steps ==
    <<"lock", "select_missing", "drop", "embed_batch", "lock", "insert_embeddings", "drop">>

delete_memory_steps == <<"lock", "delete", "drop">>

cleanup_expired_memories_steps == <<"lock", "delete_expired", "drop">>

update_memory_steps_NoDrop == <<"lock", "update", "lock", "select", "drop">>

\* update_memory drops its guard before it calls get_memory
update_memory_steps == <<"lock", "update", "drop", "lock", "select", "drop">>

\* HybridSearcher::search: search_memories, the query's embedding,
\* vector_search, and get_memory in reciprocal_rank_fusion
search_steps ==
    <<"lock", "select", "drop", "embed", "lock", "select", "drop", "lock", "select", "drop">>

\* MemoryConsolidator::merge_memories over a cluster of two: the LLM call,
\* create_memory_extended, and supersede_memory for each member
merge_memories_steps ==
    <<"generate_text", "lock", "insert_memory", "drop", "lock", "supersede", "drop",
      "lock", "supersede", "drop">>

StepsOf(op) ==
    CASE op = "embed_memory" -> embed_memory_steps
      [] op = "search" -> search_steps
      [] op = "merge_memories" -> merge_memories_steps
      [] op = "backfill_embeddings" -> backfill_embeddings_steps
      [] op = "delete_memory" -> delete_memory_steps
      [] op = "cleanup_expired_memories" -> cleanup_expired_memories_steps
      [] OTHER -> update_memory_steps

\* the step a caller is at, "returned" after the last one
AtStep(c) ==
    IF st_pc[c] > Len(StepsOf(st_call[c].op)) THEN "returned"
    ELSE StepsOf(st_call[c].op)[st_pc[c]]

ReturnPc(c) == Len(StepsOf(st_call[c].op)) + 1

StoreCall(op, id, content, now, batch_size, embed_ok) ==
    [op |-> op, id |-> id, content |-> content, now |-> now, batch_size |-> batch_size,
     embed_ok |-> embed_ok]

NoLocal == [rows |-> <<>>, vectors |-> <<>>, rejected |-> FALSE, consolidated |-> NoMemory]

insert_embedding_Unchecked(embeddings, mems, memory_id, vector) ==
    MapInsert(embeddings, memory_id, vector)

\* INSERT OR REPLACE INTO memory_embeddings: the table it leaves; the row of
\* a memory that is not there is rejected
insert_embedding(embeddings, mems, memory_id, vector) ==
    IF references_memory(mems, memory_id)
    THEN MapInsert(embeddings, memory_id, vector)
    ELSE embeddings

\* the loop of backfill_embeddings over memories.zip(embeddings)
RECURSIVE InsertAll(_, _, _, _)
InsertAll(embeddings, mems, rows, vectors) ==
    IF rows = <<>> \/ vectors = <<>> THEN embeddings
    ELSE InsertAll(insert_embedding(embeddings, mems, Head(rows).id, Head(vectors)), mems,
                   Tail(rows), Tail(vectors))

\* SELECT m.id, m.content .. WHERE e.memory_id IS NULL AND m.superseded_by
\* IS NULL LIMIT ?, in rowid order
RECURSIVE SelectMissing(_, _, _, _)
SelectMissing(mems, embeddings, from, limit) ==
    IF limit = 0 \/ (\A id \in DOMAIN mems : id < from) THEN <<>>
    ELSE IF /\ from \in DOMAIN mems
            /\ from \notin DOMAIN embeddings
            /\ mems[from].superseded_by = NoMemory
    THEN <<[id |-> from, content |-> mems[from].content]>>
             \o SelectMissing(mems, embeddings, from + 1, limit - 1)
    ELSE SelectMissing(mems, embeddings, from + 1, limit)

\* self.conn.lock().unwrap(): the caller waits until nobody holds the lock
st_lock_conn(c) ==
    /\ UNCHANGED notStore
    /\ AtStep(c) = "lock"
    /\ st_lock = NoHolder
    /\ st_lock' = c
    /\ st_pc' = [st_pc EXCEPT ![c] = @ + 1]
    /\ UNCHANGED <<memVars, st_call, st_local>>

\* the guard goes; backfill_embeddings returns Ok(0) when it selected nothing
st_drop_conn(c) ==
    /\ UNCHANGED notStore
    /\ AtStep(c) = "drop"
    /\ st_lock' = NoHolder
    /\ st_pc' = [st_pc EXCEPT ![c] =
                    IF /\ st_call[c].op = "backfill_embeddings"
                       /\ st_local[c].rows = <<>>
                    THEN ReturnPc(c) ELSE @ + 1]
    /\ UNCHANGED <<memVars, st_call, st_local>>

\* the suspension points
Awaits == {"embed", "embed_batch", "generate_text"}

\* embedding_provider.embed(content).await?, embed_batch(&texts).await? and
\* client.generate_text(messages).await: the failure ends the call (search
\* returns its BM25 rows)
st_await(c) ==
    /\ UNCHANGED notStore
    /\ AtStep(c) \in Awaits
    /\ IF st_call[c].embed_ok
       THEN /\ st_pc' = [st_pc EXCEPT ![c] = @ + 1]
            /\ st_local' = [st_local EXCEPT ![c].vectors =
                              IF AtStep(c) = "embed_batch"
                              THEN [i \in DOMAIN st_local[c].rows |->
                                       Embed(st_local[c].rows[i].content)]
                              ELSE <<Embed(st_call[c].content)>>]
       ELSE /\ st_pc' = [st_pc EXCEPT ![c] = ReturnPc(c)]
            /\ UNCHANGED st_local
    /\ UNCHANGED <<memVars, st_call, st_lock>>

\* the statement the caller runs under its guard
st_execute(c) ==
    /\ UNCHANGED notStore
    /\ AtStep(c) \in {"insert_embedding", "insert_embeddings", "select_missing", "delete",
                      "delete_expired", "update", "select", "insert_memory", "supersede"}
    /\ st_pc' = [st_pc EXCEPT ![c] = @ + 1]
    /\ memories' =
          CASE AtStep(c) = "delete" -> MapRemove(memories, {st_call[c].id})
            [] AtStep(c) = "delete_expired" ->
                  MapRemove(memories, Expired(memories, st_call[c].now))
            [] AtStep(c) = "update" /\ st_call[c].id \in DOMAIN memories ->
                  [memories EXCEPT ![st_call[c].id].content = st_call[c].content]
            [] AtStep(c) = "insert_memory" ->
                  MapInsert(memories, next_memory_id,
                            NewMemory("long_term", st_call[c].content, 7, st_call[c].now,
                                      NoExpiry, "alice", "consolidated"))
            [] AtStep(c) = "supersede" ->
                  supersede_memory(memories, Head(st_local[c].rows).id,
                                   st_local[c].consolidated)
            [] OTHER -> memories
    /\ next_memory_id' =
          IF AtStep(c) = "insert_memory" THEN next_memory_id + 1 ELSE next_memory_id
    /\ memory_embeddings' =
          CASE AtStep(c) \in {"delete", "delete_expired"} ->
                  on_delete_cascade(memory_embeddings, memories')
            [] AtStep(c) = "insert_embedding" ->
                  insert_embedding(memory_embeddings, memories, st_call[c].id,
                                   st_local[c].vectors[1])
            [] AtStep(c) = "insert_embeddings" ->
                  InsertAll(memory_embeddings, memories, st_local[c].rows,
                            st_local[c].vectors)
            [] OTHER -> memory_embeddings
    /\ st_local' =
          CASE AtStep(c) = "select_missing" ->
                  [st_local EXCEPT ![c].rows =
                      SelectMissing(memories, memory_embeddings, 1, st_call[c].batch_size)]
            [] AtStep(c) = "insert_embedding" ->
                  [st_local EXCEPT ![c].rejected =
                      ~references_memory(memories, st_call[c].id)]
            [] AtStep(c) = "insert_embeddings" ->
                  [st_local EXCEPT ![c].rejected =
                      \E i \in DOMAIN st_local[c].rows :
                          ~references_memory(memories, st_local[c].rows[i].id)]
            [] AtStep(c) = "insert_memory" ->
                  [st_local EXCEPT ![c].consolidated = next_memory_id,
                                   ![c].rows = <<[id |-> 1, content |-> "a"],
                                                 [id |-> 2, content |-> "c"]>>]
            [] AtStep(c) = "supersede" ->
                  [st_local EXCEPT ![c].rows = Tail(@)]
            [] OTHER -> st_local
    /\ UNCHANGED <<cons_report, st_call, st_lock>>

StoreCalls(calls) ==
    /\ st_pc = [c \in StoreCallers |-> 1]
    /\ st_call = calls
    /\ st_local = [c \in StoreCallers |-> NoLocal]
    /\ st_lock = NoHolder

InitStore ==
    StoreCalls([c \in StoreCallers |-> StoreCall("delete_memory", 1, "a", 0, 1, TRUE)])

\* the store the concurrent callers start from: a long-term memory and a
\* daily log that expires, created at 1 and 2, the first one embedded or not
StoreTables(embedded) ==
    /\ memories =
          MapInsert(MapInsert(<<>>, 1, NewMemory("long_term", "a", 7, 1, NoExpiry, "alice",
                                                  "inferred")),
                    2, NewMemory("daily_log", "c", 3, 2, 3, "none", "inferred"))
    /\ memory_embeddings = IF embedded THEN MapInsert(<<>>, 1, Embed("a")) ELSE <<>>
    /\ next_memory_id = 3
    /\ cons_report = Unrecorded

\* the calls of the model
StoreCallSet ==
    { StoreCall("embed_memory", id, IF id = 1 THEN "a" ELSE "c", 0, 1, ok) :
          id \in {1, 2}, ok \in BOOLEAN }
    \cup { StoreCall("backfill_embeddings", 0, "a", 0, n, ok) : n \in {1, 2}, ok \in BOOLEAN }
    \cup { StoreCall("delete_memory", id, "a", 0, 1, TRUE) : id \in {1, 2} }
    \cup { StoreCall("search", 0, "a", 0, 1, ok) : ok \in BOOLEAN }
    \cup { StoreCall("merge_memories", 0, "a", 3, 1, ok) : ok \in BOOLEAN }
    \cup { StoreCall("cleanup_expired_memories", 0, "a", 4, 1, TRUE),
           StoreCall("update_memory", 1, "b", 0, 1, TRUE) }

NextStore ==
    \/ \E c \in StoreCallers : st_lock_conn(c)
    \/ \E c \in StoreCallers : st_drop_conn(c)
    \/ \E c \in StoreCallers : st_await(c)
    \/ \E c \in StoreCallers : st_execute(c)

Init ==
    /\ InitTracker /\ InitAgent /\ InitMem /\ InitSearch
    /\ InitExec /\ InitFile /\ InitReg /\ InitRank /\ InitConc
    /\ InitSkill /\ InitLlm /\ InitTx /\ InitUtil /\ InitAdd /\ InitStore

SpecTracker == Init /\ [][NextTracker]_vars

SpecAgent == Init /\ [][NextAgent]_vars

SpecMem == Init /\ [][NextMem]_vars

SpecSearch == Init /\ [][NextSearch]_vars

SpecConc == Init /\ [][NextConc]_vars

\* the skill registry over every directory content of the model
InitSkillDisks ==
    /\ InitTracker /\ InitAgent /\ InitMem /\ InitSearch
    /\ InitExec /\ InitFile /\ InitReg /\ InitRank /\ InitConc /\ InitLlm /\ InitTx /\ InitUtil /\ InitAdd /\ InitStore
    /\ sk_skills = <<>>
    /\ sk_disk \in SkillDisks
    /\ sk_latest = NoneRegistered
    /\ sk_pc = "idle"
    /\ sk_queue = <<>>
    /\ sk_before = NotReloading
    /\ sk_seen = NoSeen

SpecSkill == InitSkillDisks /\ [][NextSkill]_vars

\* the Claude adapter over every call of the model
InitAiCalls ==
    /\ InitTracker /\ InitAgent /\ InitMem /\ InitSearch
    /\ InitExec /\ InitFile /\ InitReg /\ InitRank /\ InitConc
    /\ InitSkill /\ AiCalls /\ InitTx /\ InitUtil /\ InitAdd /\ InitStore

SpecLlm == InitAiCalls /\ [][NextLlm]_vars

\* the web3_tx tool over every call of the model
InitTxCalls ==
    /\ InitTracker /\ InitAgent /\ InitMem /\ InitSearch
    /\ InitExec /\ InitFile /\ InitReg /\ InitRank /\ InitConc
    /\ InitSkill /\ InitLlm /\ TxCalls /\ InitUtil /\ InitAdd /\ InitStore

SpecTx == InitTxCalls /\ [][NextTx]_vars

\* split_message over every text and limit of the model
InitSplitCalls ==
    /\ InitTracker /\ InitAgent /\ InitMem /\ InitSearch
    /\ InitExec /\ InitFile /\ InitReg /\ InitRank /\ InitConc
    /\ InitSkill /\ InitLlm /\ InitTx
    /\ SplitCalls
    /\ EventCall([channel_id |-> <<"i64", 1>>, chat_id |-> Absent], 1, "c1")
    /\ InitAdd /\ InitStore

SpecSplit == InitSplitCalls /\ [][NextSplit]_vars

\* event_matches_session over every event and session of the model
InitEventCalls ==
    /\ InitTracker /\ InitAgent /\ InitMem /\ InitSearch
    /\ InitExec /\ InitFile /\ InitReg /\ InitRank /\ InitConc
    /\ InitSkill /\ InitLlm /\ InitTx
    /\ SplitCall(<<"a", "\n", "b">>, 2)
    /\ EventCalls
    /\ InitAdd /\ InitStore

SpecEvent == InitEventCalls /\ [][NextEvent]_vars

\* two concurrent calls of add_to_task_metrics on the tasks of one execution
InitAddCalls ==
    /\ InitAgent /\ InitMem /\ InitSearch
    /\ InitExec /\ InitFile /\ InitReg /\ InitRank /\ InitConc
    /\ InitSkill /\ InitLlm /\ InitTx /\ InitUtil
    /\ tasks = AddTasks
    /\ channel_executions = MapInsert(<<>>, 1, 1)
    /\ next_task_id = 3
    /\ completed_event = NoEvent
    /\ InitStore
    /\ \E calls \in [Callers -> [task_id : TaskIds, inc : AddInputs]], shards \in ShardMaps :
           AddCalls(calls, shards)

SpecAdd == InitAddCalls /\ [][NextAdd]_vars

\* two concurrent callers of the memory store, over every pair of calls
InitStoreCalls ==
    /\ InitTracker /\ InitAgent /\ InitSearch
    /\ InitExec /\ InitFile /\ InitReg /\ InitRank /\ InitConc
    /\ InitSkill /\ InitLlm /\ InitTx /\ InitUtil /\ InitAdd
    /\ \E embedded \in BOOLEAN : StoreTables(embedded)
    /\ \E calls \in [StoreCallers -> StoreCallSet] : StoreCalls(calls)

SpecStore == InitStoreCalls /\ [][NextStore]_vars

\* the memory store with the reports of merge and deduplicate recorded
InitCons ==
    /\ InitTracker /\ InitAgent /\ InitSearch
    /\ InitExec /\ InitFile /\ InitReg /\ InitRank /\ InitConc
    /\ InitSkill /\ InitLlm /\ InitTx /\ InitUtil /\ InitAdd /\ InitStore
    /\ memories = <<>>
    /\ memory_embeddings = <<>>
    /\ next_memory_id = 1
    /\ cons_report = NoReport

SpecCons == InitCons /\ [][NextCons]_vars

\* the exec tool over every call of the model
InitExecCalls ==
    /\ InitTracker /\ InitAgent /\ InitMem /\ InitSearch
    /\ ExecCalls /\ InitFile /\ InitReg /\ InitRank /\ InitConc
    /\ InitSkill /\ InitLlm /\ InitTx /\ InitUtil /\ InitAdd /\ InitStore

SpecExec == InitExecCalls /\ [][NextExec]_vars

\* the read_file tool over every call of the model
InitFileCalls ==
    /\ InitTracker /\ InitAgent /\ InitMem /\ InitSearch
    /\ InitExec /\ ReadFileCalls /\ InitReg /\ InitRank /\ InitConc
    /\ InitSkill /\ InitLlm /\ InitTx /\ InitUtil /\ InitAdd /\ InitStore

SpecFile == InitFileCalls /\ [][NextFile]_vars

SpecReg == Init /\ [][NextReg]_vars

\* the ranking of a hybrid search over every call of the model
InitRankCalls ==
    /\ InitTracker /\ InitAgent /\ InitMem /\ InitSearch
    /\ InitExec /\ InitFile /\ InitReg /\ RankCalls /\ InitConc
    /\ InitSkill /\ InitLlm /\ InitTx /\ InitUtil /\ InitAdd /\ InitStore

SpecRank == InitRankCalls /\ [][NextRank]_vars

\* the loop's own steps always run, and every request ends in a reply or an
\* error (the HTTP client has a timeout)
SpecAgentFair == SpecAgent /\ WF_vars(NextAgent)

\* ------------------------------------------------------------------------
\* Claims about the execution tracker
\* ------------------------------------------------------------------------

\* the running root execution tasks of a channel
RunningRoots(ch) ==
    { t \in DOMAIN tasks : /\ tasks[t].task_type = "execution"
                           /\ tasks[t].channel_id = ch
                           /\ tasks[t].status = "running" }

\* C1: in every state the tracker holds at most one running root execution
\* task per channel_id (a second start_execution on a channel finalizes the
\* first before proceeding).
C1_AtMostOneRunningRootPerChannel ==
    \A ch \in Channels : Cardinality(RunningRoots(ch)) <= 1

\* t is root or reaches root through parent_id links held by the tracker
RECURSIVE DescendsFrom(_, _, _)
DescendsFrom(m, t, root) ==
    \/ t = root
    \/ /\ t \in DOMAIN m
       /\ m[t].parent_id \in DOMAIN m
       /\ DescendsFrom(m, m[t].parent_id, root)

TreeOf(m, root) == { t \in DOMAIN m : DescendsFrom(m, t, root) }

\* C2: whenever complete_execution emits execution.completed, the event's
\* tool_uses, tokens_used and lines_read are the sums over exactly the tasks
\* of the tree rooted at that execution's root task, as they were at the call.
C2_CompletedMetricsAreTreeSums ==
    [][ completed_event' # completed_event =>
          LET tree == TreeOf(tasks, completed_event'.execution_id)
          IN  /\ completed_event'.tool_uses = SumOver(tasks, tree, "tool_uses")
              /\ completed_event'.tokens_used = SumOver(tasks, tree, "tokens_used")
              /\ completed_event'.lines_read = SumOver(tasks, tree, "lines_read")
      ]_vars

\* C3: no step of the tracker lowers tool_uses, tokens_used, lines_read or
\* child_count of a task that the tracker holds before and after the step.
C3_MetricsNeverDecrease ==
    [][ \A t \in (DOMAIN tasks) \cap (DOMAIN tasks') :
          /\ tasks'[t].metrics.tool_uses >= tasks[t].metrics.tool_uses
          /\ tasks'[t].metrics.tokens_used >= tasks[t].metrics.tokens_used
          /\ tasks'[t].metrics.lines_read >= tasks[t].metrics.lines_read
          /\ tasks'[t].metrics.child_count >= tasks[t].metrics.child_count
      ]_vars

\* ------------------------------------------------------------------------
\* Claims about the agent loop
\* ------------------------------------------------------------------------

\* the ids of a sequence of Claude content blocks
BlockIds(blocks) == [i \in 1 .. Len(blocks) |-> blocks[i].id]

\* from index i on, ms is a sequence of rounds: an assistant message with
\* k > 0 tool calls followed by exactly k tool messages whose tool_call_id
\* are the ids of the calls, in the order of the calls; the Claude messages
\* built from such a round pair every tool_use with its tool_result
RECURSIVE RoundsMatch(_, _)
RoundsMatch(ms, i) ==
    IF i > Len(ms) THEN TRUE
    ELSE LET k == Len(ms[i].tool_calls)
             responses == [j \in 1 .. k |-> ms[i + j]]
             built == build_tool_result_messages(ms[i].tool_calls, responses)
         IN  /\ ms[i].role = "assistant"
             /\ k > 0
             /\ i + k <= Len(ms)
             /\ \A j \in 1 .. k :
                   /\ ms[i + j].role = "tool"
                   /\ ms[i + j].tool_call_id = ms[i].tool_calls[j].id
             /\ BlockIds(built[1].blocks) = BlockIds(built[2].blocks)
             /\ RoundsMatch(ms, i + k + 1)

\* C4: every tool call of a provider reply gets exactly one tool response
\* with its id, appended after the assistant tool-call message and before
\* the next request, in the order of the calls, and no other tool response
\* is appended.
C4_ToolResponsesMatchCalls == RoundsMatch(messages, 3)

\* a request is about to be answered after a round of two calls with
\* different ids
C4_Witness ==
    /\ agent_pc = "await"
    /\ Len(messages) >= 5
    /\ LET a == messages[Len(messages) - 2]
       IN  /\ a.role = "assistant"
           /\ Len(a.tool_calls) = 2
           /\ a.tool_calls[1].id # a.tool_calls[2].id

\* N: the replies with tool calls handled so far
ToolRounds == Cardinality({ i \in 1 .. Len(messages) : messages[i].role = "assistant" })

Terminated == agent_pc \in {"done", "failed"}

C5_Outcome ==
    /\ iteration <= max_iterations + 1
    /\ ToolRounds <= max_iterations
    /\ agent_pc = "top" => ToolRounds = iteration
    /\ agent_pc = "await" => ToolRounds = iteration - 1 /\ iteration <= max_iterations
    /\ agent_pc = "done" => agent_result = "final_content" /\ ToolRounds <= max_iterations - 1
    /\ agent_result = "Max iterations reached" =>
          agent_pc = "failed" /\ ToolRounds = max_iterations
    /\ agent_pc = "failed" => agent_result # "final_content"
    /\ ~Terminated => agent_result = "none"

C6_SupersederExistsAndIsActive ==
    \A id \in DOMAIN memories :
        LET x == memories[id].superseded_by
        IN  x # NoMemory => x \in DOMAIN memories /\ memories[x].superseded_by = NoMemory

\* following superseded_by from cur, at most fuel links, arrives at start
RECURSIVE LeadsBack(_, _, _)
LeadsBack(start, cur, fuel) ==
    /\ fuel > 0
    /\ cur \in DOMAIN memories
    /\ memories[cur].superseded_by # NoMemory
    /\ \/ memories[cur].superseded_by = start
       \/ LeadsBack(start, memories[cur].superseded_by, fuel - 1)

\* C7: the superseded_by relation is acyclic: no memory is superseded by
\* itself and no chain of superseded_by links leads back to its start.
C7_SupersededByIsAcyclic ==
    \A id \in DOMAIN memories : ~LeadsBack(id, id, Cardinality(DOMAIN memories))

\* a chain of two links, the second set after the first, is in the store
C7_Witness ==
    \E a \in DOMAIN memories :
        LET b == memories[a].superseded_by
        IN  /\ b \in DOMAIN memories
            /\ memories[b].superseded_by \in DOMAIN memories
\* what the active reads of the store return in the current state
ActiveReads ==
    search_memories(SearchQuery) \cup get_todays_daily_logs \cup get_long_term_memories(0)
        \cup get_session_summaries \cup get_memories_by_entity
        \cup get_valid_memories(LongTermTypes \cup {"daily_log", "session_summary"})
        \cup get_cross_channel_memories

\* C8: a memory whose superseded_by is set is never returned by an active
\* read, nor by a hybrid search (also when it is superseded between the
\* ranking and the fetch by id), while get_memory(id) still returns it.
C8_SupersededNeverReturned ==
    /\ \A id \in ActiveReads : memories[id].superseded_by = NoMemory
    /\ search_pc = "done" => \A r \in search_results : r.superseded_by = NoMemory
    /\ \A id \in DOMAIN memories : get_memory(id) = <<memories[id]>>
\* ------------------------------------------------------------------------
\* Claims about the exec tool
\* ------------------------------------------------------------------------

C10_MetacharactersNeverSpawn ==
    (/\ exec_pc = "returned"
     /\ \/ ContainsAny(exec_command, command_dangerous_chars)
        \/ \E i \in DOMAIN exec_args : ContainsAny(exec_args[i], command_dangerous_chars))
    => exec_result # "spawned" /\ exec_spawned = <<>>

\* ------------------------------------------------------------------------
\* Claims about the read_file tool
\* ------------------------------------------------------------------------

\* p is root or lies below it
Inside(p, root) == Len(root) <= Len(p) /\ \A i \in 1 .. Len(root) : p[i] = root[i]

\* the lines of the files that are not inside root (every file of the host
\* has lines of its own)
OutsideLines(root) ==
    UNION { Range(Files[p]) : p \in { q \in DOMAIN Files : ~Inside(q, root) } }

\* C11: read_file never returns the content of a file whose canonical path
\* is not inside the canonical workspace root: a request that resolves
\* outside it (absolute path, ../ traversal, a symbolic link pointing
\* outside) or does not resolve yields an error and no content, and no line
\* returned is a line of a file outside the workspace.
C11_ReadFileStaysInWorkspace ==
    rf_pc = "returned" =>
        LET root == canonicalize(fs_links, rf_call.workspace_dir)
            target == canonicalize(fs_links, join(rf_call.workspace_dir, rf_call.path))
        IN  /\ (root = NoPath \/ target = NoPath \/ ~Inside(target, root))
                  => ~rf_result.success /\ rf_result.content = <<>>
            /\ \A i \in DOMAIN rf_result.content :
                  root # NoPath /\ rf_result.content[i].line \notin OutsideLines(root)

\* a relative path through a link in the workspace that points to a file
\* outside it was refused
C11_Witness ==
    /\ rf_pc = "returned"
    /\ rf_call.path = <<"l">>
    /\ rf_call.workspace_dir = <<"/", "ws">>
    /\ <<"/", "ws", "l">> \in DOMAIN fs_links
    /\ canonicalize(fs_links, <<"/", "ws", "l">>) = <<"/", "etc", "passwd">>
    /\ rf_result = ToolError("Access denied: path is outside the workspace directory")

\* ------------------------------------------------------------------------
\* Claims about the tool registry
\* ------------------------------------------------------------------------

\* C12: ToolRegistry.execute runs a tool's execute only when the tool is
\* registered and the effective ToolConfig (the call's config if given, else
\* the registry default) allows its name and group; a tool named in the
\* effective deny_list is never executed whatever the profile or allow_list;
\* an unknown or disallowed tool yields an error result and no tool runs.
C12_ExecuteOnlyAllowedTools ==
    [][ reg_calls' = reg_calls + 1 =>
          LET name == reg_call'.name
              effective == IF reg_call'.config = NoConfig THEN reg_default_config
                           ELSE reg_call'.config
              allowed == /\ name \in DOMAIN reg_tools
                         /\ is_tool_allowed(effective, name, reg_tools[name].group)
          IN  /\ reg_invoked' = (IF allowed THEN name ELSE NoTool)
              /\ name \in effective.deny_list => reg_invoked' = NoTool
              /\ ~allowed => ~reg_result'.success /\ reg_result'.content = <<>>
      ]_vars

\* a registered tool that the call's config names in allow_list and in
\* deny_list under profile Full was refused, while the registry default
\* admits it
C12_Witness ==
    /\ reg_calls > 0
    /\ reg_call = [name |-> "exec",
                   config |-> [profile |-> "Full", allow_list |-> {"exec"},
                               deny_list |-> {"exec"}]]
    /\ "exec" \in DOMAIN reg_tools
    /\ is_tool_allowed(reg_default_config, "exec", "exec")
    /\ reg_invoked = NoTool
    /\ reg_result = ToolError("Tool is not allowed")

\* ------------------------------------------------------------------------
\* Claims about the ranking of a hybrid search
\* ------------------------------------------------------------------------

\* the lists the two queries of the returned call gave, and the ids returned
Bm25List == Take(rank_call.bm25, rank_call.limit * 2)
VectorList == Take(rank_call.vector, rank_call.limit * 2)
ReturnedIds == [i \in DOMAIN rank_result.results |-> rank_result.results[i].id]

\* 1 / (60 + rank of m in l) as a fraction, 0 when l does not contain m
Contribution(m, l) ==
    IF \E i \in DOMAIN l : l[i] = m
    THEN <<1, 60 + (CHOOSE i \in DOMAIN l : l[i] = m)>>
    ELSE <<0, 1>>

\* score(m): the sum of the two contributions, as a fraction
Score(m) ==
    LET x == Contribution(m, Bm25List)
        y == Contribution(m, VectorList)
    IN  <<x[1] * y[2] + y[1] * x[2], x[2] * y[2]>>

AtLeast(x, y) == x[1] * y[2] >= y[1] * x[2]

\* C13: when vector search is enabled and the query embedding succeeds,
\* search returns the first `limit` memories of the union of the BM25 list
\* and the vector list (less the rows found gone when fetched), each at most
\* once, in an order of non-increasing score(m) = the sum over the lists
\* containing m of 1 / (60 + the 1-based rank of m in the list).
C13_FusionReturnsTopOfUnion ==
    (rank_pc = "returned" /\ Fuses(rank_call)) =>
        LET union == (Range(Bm25List) \cup Range(VectorList)) \ rank_gone
            ids == ReturnedIds
        IN  /\ rank_result.ok
            /\ Len(ids) = IF rank_call.limit < Cardinality(union)
                          THEN rank_call.limit ELSE Cardinality(union)
            /\ \A i, j \in DOMAIN ids : i # j => ids[i] # ids[j]
            /\ Range(ids) \subseteq union
            /\ \A i, j \in DOMAIN ids : i < j => AtLeast(Score(ids[i]), Score(ids[j]))
            /\ \A i \in DOMAIN ids : \A m \in union \ Range(ids) :
                  AtLeast(Score(ids[i]), Score(m))

\* a fusion of four memories, none gone, cut to two: a memory of both lists
\* comes first and the memories left out are in one list only
C13_Witness ==
    /\ rank_pc = "returned"
    /\ Fuses(rank_call)
    /\ rank_gone = {}
    /\ rank_call.limit = 2
    /\ Cardinality(Range(Bm25List) \cup Range(VectorList)) = 4
    /\ Len(rank_result.results) = 2
    /\ rank_result.results[1].bm25_rank # NoRank
    /\ rank_result.results[1].vector_rank # NoRank
    /\ rank_result.results[2].vector_rank = NoRank

\* C14: for BM25 ranks [A, B, C], vector ranks [C, D, A], k = 60 and
\* limit = 3, hybrid search returns exactly A, C, B in that order (on every
\* run).
C14_ExampleReturnsACB ==
    (/\ rank_pc = "returned"
     /\ rank_call = [bm25 |-> <<"A", "B", "C">>, vector |-> <<"C", "D", "A">>,
                     limit |-> 3, enabled |-> TRUE, fault |-> "none"]
     /\ rank_gone = {})
    => ReturnedIds = <<"A", "C", "B">>

\* C15: when embeddings are disabled, or the query-embedding call fails,
\* search still succeeds and returns exactly the first `limit` entries of
\* the BM25 result, in BM25 order, with no vector contribution.
C15_FallbackIsBm25Prefix ==
    (/\ rank_pc = "returned"
     /\ rank_call.fault # "bm25"
     /\ ~rank_call.enabled \/ rank_call.fault = "embed")
    => /\ rank_result.ok
       /\ ReturnedIds = Take(rank_call.bm25, rank_call.limit)
       /\ \A i \in DOMAIN rank_result.results :
             rank_result.results[i].vector_rank = NoRank

\* the embedding of the query failed with vector search enabled, the BM25
\* result is longer than limit and the vector ranking holds another memory
C15_Witness ==
    /\ rank_pc = "returned"
    /\ rank_call.enabled
    /\ rank_call.fault = "embed"
    /\ Len(Bm25List) > rank_call.limit
    /\ Range(VectorList) \ Range(Bm25List) # {}
    /\ rank_result.ok
    /\ Len(rank_result.results) = rank_call.limit

\* ------------------------------------------------------------------------
\* Claims about consolidation, merge and deduplication
\* ------------------------------------------------------------------------

\* the step is a call of op that has just returned
Returned(op) == cons_report'.op = op /\ memVars' # memVars

\* C16: MemoryConsolidator.merge_memories on a cluster has only two outcomes:
\* it fails and leaves the store unchanged, or it creates exactly one new
\* memory (source_type "consolidated", entity fields of the first member) and
\* sets superseded_by = new.id on every member, so that every member is absent
\* from the active reads.
C16_MergeIsAllOrNothing ==
    [][ Returned("merge_memories") =>
          LET r == cons_report'
          IN  \/ /\ ~r.ok
                 /\ memories' = memories
              \/ /\ r.ok
                 /\ r.new_id \notin DOMAIN memories
                 /\ DOMAIN memories' = DOMAIN memories \cup {r.new_id}
                 /\ memories'[r.new_id].source_type = "consolidated"
                 /\ memories'[r.new_id].entity = memories[r.ids[1]].entity
                 /\ \A i \in DOMAIN r.ids : memories'[r.ids[i]].superseded_by = r.new_id
                 /\ \A i \in DOMAIN r.ids : r.ids[i] \notin ActiveReads'
      ]_vars

\* the importances of the memories a merge was given
MergedImportances == { memories[cons_report.ids[i]].importance : i \in DOMAIN cons_report.ids }

\* C17: the memory a merge produces (merge_memories of the consolidator, or
\* the merge endpoint with use_max_importance true or omitted) has the maximum
\* importance of the memories it merges.
C17_MergedImportanceIsMax ==
    (/\ cons_report.op \in {"merge_memories", "http_merge"}
     /\ cons_report.ok
     /\ cons_report.use_max_importance)
    => memories[cons_report.new_id].importance = Max(MergedImportances)

\* the pairs of loaded memories at or above the deduplication threshold
SimilarPairs(loaded) ==
    { pair \in Range(loaded) \X Range(loaded) :
        /\ pair[1] < pair[2]
        /\ cosine_similarity_at_least(memory_embeddings[pair[1]], memory_embeddings[pair[2]],
                                      dedup_threshold) }

\* keep wins over remove: higher importance, or the same and not created later
Wins(keep, remove) ==
    \/ memories[keep].importance > memories[remove].importance
    \/ /\ memories[keep].importance = memories[remove].importance
       /\ memories[keep].created_at <= memories[remove].created_at

\* the entries of the reported list for the pair of a and b
EntriesFor(pairs, a, b) == { i \in DOMAIN pairs : {pairs[i][1], pairs[i][2]} = {a, b} }

\* C18: deduplicate reports one (keep, remove) entry for each unordered pair
\* of loaded memories with similarity at least 0.95, keep being the member
\* with the higher importance or, on a tie, the earlier created_at; after a
\* run that is not dry each remove is superseded by its keep and no keep is
\* superseded (stated for the runs in which no UPDATE fails).
C18_DedupReportsEveryPair ==
    (cons_report.op = "deduplicate" /\ cons_report.failed = {}) =>
        LET pairs == cons_report.pairs
        IN  /\ \A sp \in SimilarPairs(cons_report.ids) :
                  /\ Cardinality(EntriesFor(pairs, sp[1], sp[2])) = 1
                  /\ \A i \in EntriesFor(pairs, sp[1], sp[2]) : Wins(pairs[i][1], pairs[i][2])
            /\ ~cons_report.dry_run =>
                  \A i \in DOMAIN pairs :
                      /\ memories[pairs[i][2]].superseded_by = pairs[i][1]
                      /\ memories[pairs[i][1]].superseded_by = NoMemory

\* C19: deduplicate with dry_run = true changes no memory, reports
\* duplicates_removed = 0 and returns the pair list a run that is not dry
\* would act on in the same store.
C19_DryRunChangesNothing ==
    [][ (Returned("deduplicate") /\ cons_report'.dry_run) =>
          /\ memories' = memories
          /\ memory_embeddings' = memory_embeddings
          /\ cons_report'.duplicates_removed = 0
          /\ \E ms \in get_memories_with_embeddings :
                /\ ms = cons_report'.ids
                /\ cons_report'.pairs = DedupOuter(ms, 1, <<>>, {})
      ]_vars

\* a dry run has just reported two pairs, and their memories are all active
C19_Witness ==
    /\ cons_report.op = "deduplicate"
    /\ cons_report.dry_run
    /\ Len(cons_report.pairs) >= 2
    /\ cons_report.duplicates_removed = 0
    /\ \A i \in DOMAIN cons_report.pairs :
          /\ memories[cons_report.pairs[i][1]].superseded_by = NoMemory
          /\ memories[cons_report.pairs[i][2]].superseded_by = NoMemory

\* ------------------------------------------------------------------------
\* Claims about complete_execution beside other callers
\* ------------------------------------------------------------------------

\* the step is the return of the call of complete_execution
CompleteReturns == ce_pc # "returned" /\ ce_pc' = "returned"

\* C20: when complete_execution(ch) returns, the channel has no current
\* execution id and the tracker holds no task of channel ch, also with
\* start_task and add_to_task_metrics running beside it; it broadcast exactly
\* one execution.completed event for the execution it completed, and on a
\* channel with no execution it changes nothing and broadcasts nothing (the
\* steps of the call itself: the take of a missing entry and the return).
C20_CompleteExecutionLeavesNothing ==
    [][ CompleteReturns =>
          IF ce_call'.execution_id = NoParent
          THEN /\ trackerVars' = trackerVars
               /\ ce_call'.events = 0
          ELSE /\ ce_call'.channel_id \notin DOMAIN channel_executions'
               /\ \A t \in DOMAIN tasks' : tasks'[t].channel_id # ce_call'.channel_id
               /\ ce_call'.events = 1
      ]_vars

\* ------------------------------------------------------------------------
\* Claims about the skill registry
\* ------------------------------------------------------------------------

\* the sources a name was registered from since the last clear
RegisteredFrom(name) == { src \in Range(SkillSources) : sk_latest[name][src] # 0 }

\* the one of them with the highest priority
TopSource(name) ==
    CHOOSE src \in RegisteredFrom(name) :
        \A other \in RegisteredFrom(name) : priority(other) <= priority(src)

C30_ReadersSeeWholeRegistry ==
    (sk_seen.op # "none" /\ sk_seen.during) =>
        \/ sk_seen.result = Observe(sk_seen.op, sk_seen.name, sk_before.skills)
        \/ sk_seen.result = Observe(sk_seen.op, sk_seen.name, load_all(<<>>, sk_disk))

\* ------------------------------------------------------------------------
\* Claims about the Claude adapter
\* ------------------------------------------------------------------------

\* the response has a block of the type
HasBlock(content, content_type) ==
    \E i \in DOMAIN content : content[i].content_type = content_type

\* C22: generate_text and generate_with_tools return an error whenever the
\* provider's response holds neither a text block nor a tool_use block; they
\* never return a success with empty content and no tool calls.
C22_EmptyResponseIsAnError ==
    ai_pc = "returned" =>
        /\ (/\ ai_call.transport = "ok"
            /\ ~HasBlock(ai_call.content, "text")
            /\ ~HasBlock(ai_call.content, "tool_use")) => ~ai_result.ok
        /\ ~(ai_result.ok /\ ai_result.content = <<>> /\ ai_result.tool_calls = <<>>)

\* ------------------------------------------------------------------------
\* Claims about the web3_tx tool
\* ------------------------------------------------------------------------

\* the positions in the event log of the events of a name
EventsNamed(event) == { i \in DOMAIN tx_events : tx_events[i].event = event }

\* C23: with a broadcaster and a channel id, tx.pending is emitted at most
\* once and only after send_raw_transaction succeeded; tx.confirmed is emitted
\* at most once, only after tx.pending for the same hash and only after a
\* receipt was obtained, with status "confirmed" when the receipt status is 1
\* and "reverted" otherwise; no tx event is emitted when signing or
\* broadcasting fails; when no receipt arrives within the wait the call ends
\* in an error with tx.pending emitted and no tx.confirmed.
C23_TxEventsFollowTheTransaction ==
    (tx_call.broadcaster /\ tx_call.channel_id) =>
        /\ Cardinality(EventsNamed("tx.pending")) <= 1
        /\ Cardinality(EventsNamed("tx.confirmed")) <= 1
        /\ \A i \in EventsNamed("tx.pending") :
            tx_call.send_ok /\ tx_hash # NoHash /\ tx_events[i].tx_hash = tx_hash
        /\ \A i \in EventsNamed("tx.confirmed") :
            /\ \E j \in EventsNamed("tx.pending") :
                j < i /\ tx_events[j].tx_hash = tx_events[i].tx_hash
            /\ tx_receipt # NoReceipt
            /\ tx_events[i].status =
                   IF tx_receipt = Some(Some(1)) THEN "confirmed" ELSE "reverted"
        /\ (tx_pc = "returned" /\ tx_request.built /\ (~tx_call.sign_ok \/ ~tx_call.send_ok))
               => tx_events = <<>>
        /\ (tx_pc = "returned" /\ tx_hash # NoHash /\ tx_call.receipt = Timeout)
               => /\ ~tx_result.ok
                  /\ tx_events = <<TxEvent("tx.pending", tx_hash, "pending")>>
        /\ (tx_pc = "returned" /\ tx_result.ok)
               => /\ Cardinality(EventsNamed("tx.pending")) = 1
                  /\ Cardinality(EventsNamed("tx.confirmed")) = 1

\* a call with a broadcaster and a channel id returned after a reverted
\* receipt: both events are in the log
C23_Witness ==
    /\ tx_pc = "returned"
    /\ tx_call.broadcaster /\ tx_call.channel_id
    /\ tx_receipt = Some(Some(0))
    /\ Len(tx_events) = 2
    /\ tx_events[2] = TxEvent("tx.confirmed", tx_hash, "reverted")

\* C29: each of gas_limit, max_fee_per_gas and max_priority_fee_per_gas that
\* the caller supplies is the value of the signed transaction; only what the
\* caller left out is filled in: the gas limit with the estimate * 120 / 100,
\* the fees with the RPC's EIP-1559 suggestion, the priority fee with 1 gwei
\* as the fallback.
C29_SuppliedGasAndFeesAreUsed ==
    tx_request.built =>
        /\ tx_request.gas =
               IF tx_call.gas_limit # Absent THEN tx_call.gas_limit[2]
               ELSE (tx_call.estimate_gas[2] * 120) \div 100
        /\ tx_request.max_fee_per_gas =
               IF tx_call.max_fee_per_gas # Absent THEN tx_call.max_fee_per_gas[2]
               ELSE tx_call.estimate_eip1559_fees[2][1]
        /\ tx_call.max_priority_fee_per_gas \notin {Absent, Some(Unparsable)} =>
               tx_request.max_priority_fee_per_gas = tx_call.max_priority_fee_per_gas[2]
        /\ tx_call.max_priority_fee_per_gas = Absent =>
               tx_request.max_priority_fee_per_gas =
                   IF tx_call.max_fee_per_gas = Absent
                   THEN tx_call.estimate_eip1559_fees[2][2]
                   ELSE DefaultPriorityFee

\* ------------------------------------------------------------------------
\* Claims about the channel utilities
\* ------------------------------------------------------------------------

\* every text the chunks give when each gap is closed with a newline or with
\* nothing
RECURSIVE Rejoined(_)
Rejoined(chunks) ==
    IF chunks = <<>> THEN {<<>>}
    ELSE IF Len(chunks) = 1 THEN {chunks[1]}
    ELSE { chunks[1] \o sep \o rest : sep \in {<<"\n">>, <<>>}, rest \in Rejoined(Tail(chunks)) }

\* C24: for every string s and limit n >= 1, split_message(s, n) returns
\* chunks each of length at most n, and rejoining the chunks (with a newline
\* where the split fell on a line boundary, with nothing where an over-long
\* line was hard-split) reproduces s with every original character, blank
\* lines included, in order.
C24_SplitPreservesTheText ==
    sm_pc = "returned" =>
        /\ \A i \in DOMAIN sm_result : Len(sm_result[i]) <= sm_call.max_len
        /\ sm_call.text \in Rejoined(sm_result)

\* the value is of the JSON type and has the content
JsonIs(v, type, content) == v[1] = type /\ v[2] = content

\* C25: event_matches_session(data, ch, chat) returns true exactly when
\* data.channel_id equals ch and data.chat_id is absent or equal to chat; in
\* every other case (channel_id missing, not an integer or different; chat_id
\* present but not equal to chat, whatever its JSON type) it returns false.
C25_EventMatchesExactlyItsSession ==
    ev_pc = "returned" =>
        (ev_result <=>
            /\ JsonIs(ev_call.data.channel_id, "i64", ev_call.channel_id)
            /\ \/ ev_call.data.chat_id = Absent
               \/ JsonIs(ev_call.data.chat_id, "str", ev_call.chat_id))

\* ------------------------------------------------------------------------
\* Claims about concurrent add_to_task_metrics
\* ------------------------------------------------------------------------

\* the sum of the i-th increment of the callers of a set that name the task
RECURSIVE IncrementSum(_, _, _)
IncrementSum(cs, id, i) ==
    IF cs = {} THEN 0
    ELSE LET c == CHOOSE x \in cs : TRUE
         IN (IF am_call[c].task_id = id THEN am_call[c].inc[i] ELSE 0)
                + IncrementSum(cs \ {c}, id, i)

\* the events of a sequence that are about the task
EventsOf(events, id) ==
    LET about(e) == e.task_id = id
    IN SelectSeq(events, about)

\* C27: concurrent add_to_task_metrics calls on one task id never lose an
\* update: once all calls have returned, each metric is its previous value
\* plus the sum of all increments; the task.updated events of the task are
\* emitted in the order in which the mutations were applied, each carrying
\* the metrics as they stood right after its own mutation.
C27_ConcurrentAddsAreSerialised ==
    \A id \in DOMAIN tasks :
        /\ (\A c \in Callers : am_pc[c] = "returned") =>
              /\ tasks[id].metrics.tool_uses =
                     AddTasks[id].metrics.tool_uses + IncrementSum(Callers, id, 1)
              /\ tasks[id].metrics.tokens_used =
                     AddTasks[id].metrics.tokens_used + IncrementSum(Callers, id, 2)
              /\ tasks[id].metrics.lines_read =
                     AddTasks[id].metrics.lines_read + IncrementSum(Callers, id, 3)
              /\ EventsOf(am_log, id) = EventsOf(am_applied, id)
        /\ Len(EventsOf(am_log, id)) <= Len(EventsOf(am_applied, id))
        /\ EventsOf(am_log, id) =
               SubSeq(EventsOf(am_applied, id), 1, Len(EventsOf(am_log, id)))

\* both callers have added to task 1 and returned
C27_Witness ==
    /\ \A c \in Callers : am_pc[c] = "returned" /\ am_call[c].task_id = 1
    /\ am_call[1].inc # am_call[2].inc
    /\ Len(am_log) = 2
    /\ tasks[1].metrics.tool_uses = 1
    /\ tasks[1].metrics.tokens_used = 1

\* ------------------------------------------------------------------------
\* Claims about concurrent callers of the memory store
\* ------------------------------------------------------------------------

\* the caller can take its next step
CanStep(c) == AtStep(c) # "returned" /\ (AtStep(c) = "lock" => st_lock = NoHolder)

\* C26: no memory-store operation holds the connection lock across a
\* suspension point (an embedding request or an LLM call), none tries to acquire the lock
\* while it holds it, and concurrent callers never deadlock on the store: as
\* long as a caller has not returned, some caller can take a step.
C26_LockNeverHeldAcrossAwait ==
    /\ \A c \in StoreCallers :
          AtStep(c) \in Awaits \cup {"lock", "returned"} => st_lock # c
    /\ (\E c \in StoreCallers : AtStep(c) # "returned") => \E c \in StoreCallers : CanStep(c)

\* a backfill waits for its embeddings while the other caller holds the lock
C26_Witness ==
    \E c, d \in StoreCallers :
        /\ AtStep(c) = "embed_batch"
        /\ st_lock = d
        /\ d # c

====
